---------------------------- MODULE Spec2Model ----------------------------
(***************************************************************************)
(* Weekly rota scheduler (SchedulerCore) and reassignment optimizer        *)
(* (RotaService.reanalyze_assignments) of the care-rota repository.        *)
(*                                                                         *)
(* Conventions of the model                                                *)
(*  - a Python str whose characters the code inspects (lower, strip,       *)
(*    split, `in`) is a sequence of one-character strings;                 *)
(*  - a datetime is the number of whole minutes since 00:00 of the day a   *)
(*    weekly run starts on (the code zeroes seconds before it stores a     *)
(*    time, and its ISO text orders and dates exactly as that number);     *)
(*  - an address is an opaque street token plus a postcode.                *)
(***************************************************************************)
EXTENDS Integers, Sequences, FiniteSets, TLC

(***************************************************************************)
(* Bounds of the model.                                                    *)
(***************************************************************************)
MaxRuns == 2
MaxReanalyses == 1
MaxIds == 2
MaxAssignmentId == 3

(***************************************************************************)
(* Program constants.                                                      *)
(***************************************************************************)
DaysPerWeek == 7
MinutesPerDay == 1440
MinVisitMinutes == 15
RetryStepMinutes == 5
DefaultMaxVisits == 8
DefaultEarliestHour == 9
DefaultLatestHour == 17
MinDailyFromHours == 15
MinDailyFromServices == 60
FallbackDailyMinutes == 60
EstimateCap == 60
TravelCap == 180
TravelFloor == 1
DefaultPriority == 5

Min(a, b) == IF a <= b THEN a ELSE b
Max(a, b) == IF a >= b THEN a ELSE b

(***************************************************************************)
(* Python string operations on sequences of characters.                    *)
(***************************************************************************)
UpperLetters ==
    <<"A","B","C","D","E","F","G","H","I","J","K","L","M",
      "N","O","P","Q","R","S","T","U","V","W","X","Y","Z">>
LowerLetters ==
    <<"a","b","c","d","e","f","g","h","i","j","k","l","m",
      "n","o","p","q","r","s","t","u","v","w","x","y","z">>

LowerChar(c) ==
    IF \E i \in 1..26 : UpperLetters[i] = c
    THEN LowerLetters[CHOOSE i \in 1..26 : UpperLetters[i] = c]
    ELSE c

\* str.lower()
Lower(s) == [i \in 1..Len(s) |-> LowerChar(s[i])]

RECURSIVE LStrip(_)
LStrip(s) == IF s # <<>> /\ Head(s) = " " THEN LStrip(Tail(s)) ELSE s

RECURSIVE RStrip(_)
RStrip(s) ==
    IF s # <<>> /\ s[Len(s)] = " "
    THEN RStrip(SubSeq(s, 1, Len(s) - 1))
    ELSE s

\* str.strip()
Strip(s) == RStrip(LStrip(s))

\* needle in hay
Contains(needle, hay) ==
    \E i \in 0..(Len(hay) - Len(needle)) :
        SubSeq(hay, i + 1, i + Len(needle)) = needle

\* str.split(',')
RECURSIVE SplitComma(_, _)
SplitComma(s, cur) ==
    IF s = <<>> THEN <<cur>>
    ELSE IF Head(s) = "," THEN <<cur>> \o SplitComma(Tail(s), <<>>)
    ELSE SplitComma(Tail(s), Append(cur, Head(s)))

\* DataProcessor._parse_list
RECURSIVE StripNonEmpty(_)
StripNonEmpty(items) ==
    IF items = <<>> THEN <<>>
    ELSE IF Strip(Head(items)) # <<>>
         THEN <<Strip(Head(items))>> \o StripNonEmpty(Tail(items))
         ELSE StripNonEmpty(Tail(items))

ParseList(s) == IF s = <<>> THEN <<>> ELSE StripNonEmpty(SplitComma(s, <<>>))

(***************************************************************************)
(* Literals the code compares against.                                     *)
(***************************************************************************)
KwMedicine == <<"m","e","d","i","c","i","n","e">>
KwExercise == <<"e","x","e","r","c","i","s","e">>
KwCompan == <<"c","o","m","p","a","n">>
KwCompanion == <<"c","o","m","p","a","n","i","o","n">>
KwPersonal == <<"p","e","r","s","o","n","a","l">>
KwCare == <<"c","a","r","e">>
KwEnglish == <<"e","n","g","l","i","s","h">>
StrEnglish == <<"E","n","g","l","i","s","h">>

(***************************************************************************)
(* Service types and default durations.                                    *)
(***************************************************************************)
ServiceTypes == {"medicine", "exercise", "companionship", "personal_care"}

\* (mutant) every visit lasts an hour by default
DefaultDurationOfAnHour(service_type) == 60

get_default_service_duration(service_type) ==
    CASE service_type = "medicine" -> 30
      [] service_type = "personal_care" -> 45
      [] service_type = "exercise" -> 30
      [] service_type = "companionship" -> 60
      [] OTHER -> 30

\* One item of the comma-separated list, or "" when it names no service.
ParseServiceItem(item) ==
    LET service_lower == Lower(item)
    IN  IF Contains(KwMedicine, service_lower) THEN "medicine"
        ELSE IF Contains(KwExercise, service_lower) THEN "exercise"
        ELSE IF Contains(KwCompanion, service_lower) THEN "companionship"
        ELSE IF Contains(KwPersonal, service_lower)
                \/ Contains(KwCare, service_lower) THEN "personal_care"
        ELSE ""

RECURSIVE ParseServiceItems(_)
ParseServiceItems(items) ==
    IF items = <<>> THEN <<>>
    ELSE LET s == ParseServiceItem(Head(items))
         IN  (IF s = "" THEN <<>> ELSE <<s>>) \o ParseServiceItems(Tail(items))

_parse_services(services_str) ==
    IF services_str = <<>> THEN <<>>
    ELSE CHOOSE r \in { ParseServiceItems(items) :
                          items \in {ParseList(services_str)} } : TRUE

RECURSIVE SumDurations(_)
SumDurations(services) ==
    IF services = <<>> THEN 0
    ELSE get_default_service_duration(Head(services))
         + SumDurations(Tail(services))

\* (mutant) the floor of 15 minutes is left out
DemandWithoutFloor(patient) ==
    LET weekly_hours == patient.RequiredHoursOfSupport
        services == _parse_services(patient.RequiredSupport)
    IN  IF weekly_hours > 0
        THEN (weekly_hours * 60) \div 7
        ELSE IF services # <<>>
             THEN Max(MinDailyFromServices, SumDurations(services))
             ELSE FallbackDailyMinutes

derive_patient_daily_demand(patient) ==
    LET weekly_hours == patient.RequiredHoursOfSupport
        services == _parse_services(patient.RequiredSupport)
    IN  IF weekly_hours > 0
        THEN Max(MinDailyFromHours, (weekly_hours * 60) \div 7)
        ELSE IF services # <<>>
             THEN Max(MinDailyFromServices, SumDurations(services))
             ELSE FallbackDailyMinutes

_infer_service_type(patient) ==
    LET supports == Lower(patient.RequiredSupport)
    IN  IF Contains(KwMedicine, supports) THEN "medicine"
        ELSE IF Contains(KwExercise, supports) THEN "exercise"
        ELSE IF Contains(KwCompan, supports) THEN "companionship"
        ELSE "personal_care"

(***************************************************************************)
(* Eligibility filter.                                                     *)
(***************************************************************************)
\* (mutant) the qualification check is left out
CanServeIgnoringQualification(employee, patient) ==
    LET raw == IF patient.LanguagePreference = <<>>
               THEN StrEnglish ELSE patient.LanguagePreference
        pref == Lower(Strip(raw))
        langs == Lower(employee.LanguageSpoken)
    IN  ~(pref # <<>> /\ pref # KwEnglish /\ ~Contains(pref, langs))

\* (mutant) the language check is left out
CanServeIgnoringLanguage(employee, patient) ==
    ~(/\ Contains(KwMedicine, Lower(patient.RequiredSupport))
      /\ employee.Qualification # "Nurse")

_employee_can_serve(employee, patient) ==
    LET needs_nurse == Contains(KwMedicine, Lower(patient.RequiredSupport))
        raw == IF patient.LanguagePreference = <<>>
               THEN StrEnglish ELSE patient.LanguagePreference
        pref == Lower(Strip(raw))
        langs == Lower(employee.LanguageSpoken)
    IN  /\ ~(needs_nurse /\ employee.Qualification # "Nurse")
        /\ ~(pref # <<>> /\ pref # KwEnglish /\ ~Contains(pref, langs))


(***************************************************************************)
(* Travel-time provider (TravelService).                                   *)
(***************************************************************************)
Digits == {"0","1","2","3","4","5","6","7","8","9"}

\* The origin / destination string built from an entity's Address and
\* PostCode (scheduler_core.py line 83, rota_service.py line 506).
LocationOf(x) == [addr |-> x.Address, pc |-> x.PostCode]

\* str.lower() of the transport-mode strings the program passes around.
ModeLower(mode) ==
    CASE mode = "Car" -> "car"
      [] mode = "Walking" -> "walking"
      [] mode = "Bicycle" -> "bicycle"
      [] mode = "Public Transport" -> "public transport"
      [] OTHER -> mode

_map_transport_mode(transport_mode) ==
    LET m == ModeLower(transport_mode)
    IN  CASE m = "car" -> "driving"
          [] m = "walking" -> "walking"
          [] m = "bicycle" -> "bicycling"
          [] m = "public transport" -> "transit"
          [] m = "public_transport" -> "transit"
          [] m = "bike" -> "bicycling"
          [] OTHER -> "driving"

\* _pc: the last token of the location that holds a digit; street tokens of
\* the model hold none, so it is the postcode when that holds a digit.
PostcodeToken(loc) ==
    IF \E i \in 1..Len(loc.pc) : loc.pc[i] \in Digits THEN loc.pc ELSE <<>>

Prefix2(s) == SubSeq(s, 1, Min(2, Len(s)))

IsEmptyLocation(loc) == loc.addr = "" /\ loc.pc = <<>>

_estimate_travel_time(origin, destination, mode) ==
    LET po == PostcodeToken(origin)
        pd == PostcodeToken(destination)
        base0 == IF IsEmptyLocation(origin) \/ IsEmptyLocation(destination)
                 THEN 15
                 ELSE IF origin = destination THEN 0
                 ELSE IF po # <<>> /\ pd # <<>> /\ po = pd THEN 6
                 ELSE IF po # <<>> /\ pd # <<>> /\ Prefix2(po) = Prefix2(pd)
                      THEN 10
                 ELSE 18
        m == _map_transport_mode(mode)
        base == IF m = "walking" THEN base0 + 10
                ELSE IF m = "bicycling" THEN base0 + 5
                ELSE base0
    IN  Max(TravelFloor, Min(base, EstimateCap))

\* ts is the TravelService object: fast_scheduler, client ("none" when no
\* API key is configured, else how the remote service answers) and the
\* duration in seconds it reports.
calculate_travel_time(ts, origin, destination, mode) ==
    IF ts.client = "none" \/ ts.fast_scheduler
    THEN _estimate_travel_time(origin, destination, mode)
    ELSE IF IsEmptyLocation(origin) \/ IsEmptyLocation(destination)
         THEN _estimate_travel_time(origin, destination, mode)
    ELSE IF origin = destination THEN 0
    ELSE IF ts.client = "ok" THEN ts.duration_value \div 60
    ELSE _estimate_travel_time(origin, destination, mode)

\* (mutant) the minutes are returned as computed, without the final clamp
GetTravelTimeUnclamped(ts, origin, destination, mode) ==
    LET api_mode == _map_transport_mode(mode)
        fast == ts.fast_scheduler \/ ts.client = "none"
    IN  IF fast
        THEN _estimate_travel_time(origin, destination, api_mode)
        ELSE calculate_travel_time(ts, origin, destination, api_mode)

get_travel_time(ts, origin, destination, mode) ==
    LET api_mode == _map_transport_mode(mode)
        fast == ts.fast_scheduler \/ ts.client = "none"
        minutes == IF fast
                   THEN _estimate_travel_time(origin, destination, api_mode)
                   ELSE calculate_travel_time(ts, origin, destination, api_mode)
    IN  Max(TravelFloor, Min(minutes, TravelCap))

(***************************************************************************)
(* Shift window.  EarliestStart / LatestEnd are the ':'-separated integer  *)
(* parts of the "HH:MM" text; <<>> is the empty string.                    *)
(***************************************************************************)
ParseTime(t, default) ==
    IF t = <<>> THEN default
    ELSE LET hour == t[1]
             minute == IF Len(t) > 1 THEN t[2] ELSE 0
         IN  IF hour \in 0..23 /\ minute \in 0..59
             THEN hour * 60 + minute
             ELSE default

\* <<earliest, latest>> as minutes of the day
_parse_shift(employee) ==
    << ParseTime(employee.EarliestStart, DefaultEarliestHour * 60),
       ParseTime(employee.LatestEnd, DefaultLatestHour * 60) >>

DateOf(t) == t \div MinutesPerDay
Combine(day, minute_of_day) == day * MinutesPerDay + minute_of_day

(***************************************************************************)
(* Assignment store (DatabaseManager).  A row's id is its position: ids    *)
(* are handed out from 1 and the operations modelled delete nothing.       *)
(***************************************************************************)
log_assignment(rows, assignment) ==
    Append(rows,
        [ id |-> Len(rows) + 1,
          employee_id |-> assignment.employee_id,
          patient_id |-> assignment.patient_id,
          service_type |-> assignment.service_type,
          assigned_time |-> assignment.assigned_time,
          start_time |-> assignment.start_time,
          end_time |-> assignment.end_time,
          duration |-> assignment.estimated_duration,
          travel_time |-> assignment.travel_time,
          priority_score |-> assignment.priority_score,
          reasoning |-> assignment.assignment_reason ])

\* Conflict guard: start < otherEnd and end > otherStart
has_overlap_for_employee(rows, employee_id, start, end) ==
    \E i \in 1..Len(rows) :
        /\ rows[i].employee_id = employee_id
        /\ start < rows[i].end_time
        /\ end > rows[i].start_time

has_employee_patient_assignment_on_date(rows, employee_id, patient_id, t) ==
    \E i \in 1..Len(rows) :
        /\ rows[i].employee_id = employee_id
        /\ rows[i].patient_id = patient_id
        /\ DateOf(rows[i].start_time) = DateOf(t)

get_employee_assignments_for_date(rows, employee_id, t) ==
    { i \in 1..Len(rows) :
        /\ rows[i].employee_id = employee_id
        /\ DateOf(rows[i].start_time) = DateOf(t) }

HasAssignment(rows, aid) == aid \in 1..Len(rows)

update_assignment(rows, aid, updates) ==
    [rows EXCEPT ![aid] =
        [f \in DOMAIN rows[aid] |->
            IF f \in DOMAIN updates THEN updates[f] ELSE rows[aid][f]]]


(***************************************************************************)
(* Input data the runs are checked on.                                     *)
(***************************************************************************)
PcN15 == <<"N","1","5">>
PcN17 == <<"N","1","7">>
PcE23 == <<"E","2","3">>

LangEnglish == <<"E","n","g","l","i","s","h">>
LangEnglishLower == <<"e","n","g","l","i","s","h">>
LangEnglishUrdu == <<"E","n","g","l","i","s","h",","," ","U","r","d","u">>
PrefUrduPadded == <<" ","U","R","D","U"," ">>
PrefEnglishUpper == <<"E","N","G","L","I","S","H">>

SupExercise == <<"E","x","e","r","c","i","s","e">>
SupMedicineExercise ==
    <<"M","e","d","i","c","i","n","e",","," ","E","x","e","r","c","i","s","e">>
SupPersonalCare == <<"P","e","r","s","o","n","a","l"," ","C","a","r","e">>

EmpDefault ==
    [ EmployeeID |-> "E0", Address |-> "a0", PostCode |-> PcN15,
      TransportMode |-> "Car", Qualification |-> "Carer",
      LanguageSpoken |-> LangEnglish,
      EarliestStart |-> <<>>, LatestEnd |-> <<>>,
      max_patients_per_day |-> 0 ]
EmpNurse ==
    [ EmployeeID |-> "E1", Address |-> "a1", PostCode |-> PcN15,
      TransportMode |-> "Car", Qualification |-> "Nurse",
      LanguageSpoken |-> LangEnglish,
      EarliestStart |-> <<9, 0>>, LatestEnd |-> <<11, 0>>,
      max_patients_per_day |-> 8 ]
EmpCarer ==
    [ EmployeeID |-> "E2", Address |-> "a2", PostCode |-> PcN15,
      TransportMode |-> "Walking", Qualification |-> "Carer",
      LanguageSpoken |-> LangEnglishUrdu,
      EarliestStart |-> <<9>>, LatestEnd |-> <<10, 15>>,
      max_patients_per_day |-> 8 ]
EmpSenior ==
    [ EmployeeID |-> "E3", Address |-> "a3", PostCode |-> PcN17,
      TransportMode |-> "Bicycle", Qualification |-> "Senior Carer",
      LanguageSpoken |-> LangEnglishLower,
      EarliestStart |-> <<10, 0>>, LatestEnd |-> <<11, 0>>,
      max_patients_per_day |-> 1 ]
EmpNoShift ==
    [ EmployeeID |-> "E4", Address |-> "a4", PostCode |-> PcE23,
      TransportMode |-> "Public Transport", Qualification |-> "Nurse",
      LanguageSpoken |-> LangEnglish,
      EarliestStart |-> <<25, 0>>, LatestEnd |-> <<8, 30>>,
      max_patients_per_day |-> 8 ]
EmpLate ==
    [ EmployeeID |-> "E5", Address |-> "a5", PostCode |-> PcN17,
      TransportMode |-> "Car", Qualification |-> "Carer",
      LanguageSpoken |-> LangEnglish,
      EarliestStart |-> <<12, 0>>, LatestEnd |-> <<13, 0>>,
      max_patients_per_day |-> 8 ]
EmpBrief ==
    [ EmployeeID |-> "E6", Address |-> "a6", PostCode |-> PcN17,
      TransportMode |-> "Car", Qualification |-> "Carer",
      LanguageSpoken |-> LangEnglish,
      EarliestStart |-> <<12, 0>>, LatestEnd |-> <<12, 30>>,
      max_patients_per_day |-> 8 ]
EmpCapped ==
    [ EmployeeID |-> "E7", Address |-> "a7", PostCode |-> PcN15,
      TransportMode |-> "Car", Qualification |-> "Nurse",
      LanguageSpoken |-> LangEnglish,
      EarliestStart |-> <<9, 0>>, LatestEnd |-> <<11, 0>>,
      max_patients_per_day |-> 1 ]

PatEx ==
    [ PatientID |-> "P1", Address |-> "b1", PostCode |-> PcN17,
      RequiredSupport |-> SupExercise, RequiredHoursOfSupport |-> 7,
      LanguagePreference |-> PrefEnglishUpper ]
PatMed ==
    [ PatientID |-> "P2", Address |-> "b2", PostCode |-> PcN15,
      RequiredSupport |-> SupMedicineExercise, RequiredHoursOfSupport |-> 4,
      LanguagePreference |-> <<>> ]
PatUrdu ==
    [ PatientID |-> "P3", Address |-> "b3", PostCode |-> PcE23,
      RequiredSupport |-> SupPersonalCare, RequiredHoursOfSupport |-> 0,
      LanguagePreference |-> PrefUrduPadded ]

EmployeeLists ==
    { <<EmpNurse>>, <<EmpCarer>>,
      <<EmpNurse, EmpCarer>>, <<EmpCarer, EmpNurse>>,
      <<EmpNoShift, EmpNurse, EmpSenior>> }

PatientLists ==
    { <<PatEx>>, <<PatMed>>, <<PatUrdu>>, <<PatEx, PatMed>>,
      <<PatMed, PatUrdu>>, <<PatEx, PatUrdu>>, <<PatEx, PatMed, PatUrdu>> }

FastService ==
    [ fast_scheduler |-> TRUE, client |-> "none", duration_value |-> 0 ]
ApiServices ==
    { [ fast_scheduler |-> FALSE, client |-> c, duration_value |-> d ] :
        c \in {"ok"}, d \in {45, 12000} }
      \cup { [ fast_scheduler |-> FALSE, client |-> "raises",
               duration_value |-> 0 ] }

Scenarios ==
    (EmployeeLists \X PatientLists \X {FastService})
    \cup ({<<EmpDefault>>} \X {<<PatEx>>} \X {FastService})
    \cup ({<<EmpCarer, EmpNurse, EmpDefault>>} \X {<<PatUrdu>>}
          \X {FastService})
    \cup ({<<EmpCarer, EmpNoShift, EmpSenior, EmpLate>>} \X {<<PatUrdu>>}
          \X {FastService})
    \cup ({<<EmpBrief, EmpNurse>>} \X {<<PatEx>>} \X {FastService})
    \cup ({<<EmpCapped, EmpNurse>>} \X {<<PatEx, PatMed>>}
          \X {FastService})
    \cup ({<<EmpNurse, EmpCarer>>} \X {<<PatEx, PatMed>>} \X ApiServices)

(***************************************************************************)
(* State.                                                                  *)
(***************************************************************************)
VARIABLES
    employees,              \* DataProcessor.employees
    patients,               \* DataProcessor.patients
    travel_service,         \* TravelService configuration
    store,                  \* rows of the assignments table
    hist,                   \* per row: how the scheduler placed it (history)
    pc,                     \* "idle", "day", "employee", "router", "reanalyze"
    runs,                   \* weekly runs started
    reanalyses,             \* reanalysis calls started
    result,                 \* what the last finished call returned
    day_offset,             \* generate_weekly_rota: loop variable
    total_created,          \* generate_weekly_rota: total_created
    patient_daily_minutes,  \* _generate_daily_rota: the demand pool
    created_count,          \* _generate_daily_rota: created_count
    emp_idx,                \* _generate_daily_rota: position in employees
    current_time,           \* router: current_time
    shift_end,              \* router: shift_end
    current_location,       \* router: current_location
    visits_done,            \* router: visits_done
    assignment_ids,         \* reanalyze_assignments: the ids passed in
    pending,                \* reanalyze_assignments: ids still to process
    updated,                \* reanalyze_assignments: updated
    allow_time_change       \* reanalyze_assignments: the flag passed in

cfgVars == <<employees, patients, travel_service>>
weekVars == <<day_offset, total_created>>
dayVars == <<patient_daily_minutes, created_count, emp_idx>>
loopVars == <<current_time, shift_end, current_location, visits_done>>
reVars == <<assignment_ids, pending, updated, allow_time_change>>
vars == <<employees, patients, travel_service, store, hist, pc, runs,
          reanalyses, result, day_offset, total_created,
          patient_daily_minutes, created_count, emp_idx, current_time,
          shift_end, current_location, visits_done, assignment_ids, pending,
          updated, allow_time_change>>

NoLocation == [addr |-> "", pc |-> <<>>]
NoDemand == <<>>

Init ==
    /\ \E sc \in Scenarios :
        /\ employees = sc[1]
        /\ patients = sc[2]
        /\ travel_service = sc[3]
    /\ store = <<>>
    /\ hist = <<>>
    /\ pc = "idle"
    /\ runs = 0
    /\ reanalyses = 0
    /\ result = "none"
    /\ day_offset = 0
    /\ total_created = 0
    /\ patient_daily_minutes = NoDemand
    /\ created_count = 0
    /\ emp_idx = 0
    /\ current_time = 0
    /\ shift_end = 0
    /\ current_location = NoLocation
    /\ visits_done = 0
    /\ assignment_ids = <<>>
    /\ pending = <<>>
    /\ updated = <<>>
    /\ allow_time_change = FALSE


(***************************************************************************)
(* SchedulerCore: the weekly orchestrator and the greedy router.           *)
(***************************************************************************)
\* dict.get(key, 0)
Get(d, key) == IF key \in DOMAIN d THEN d[key] ELSE 0

\* (mutant) the pool is filled on the first day of the week only
DemandPoolOfFirstDayOnly ==
    IF day_offset > 0 THEN patient_daily_minutes
    ELSE [ id \in { patients[i].PatientID : i \in 1..Len(patients) } |->
             derive_patient_daily_demand(
                 patients[CHOOSE i \in 1..Len(patients) :
                              patients[i].PatientID = id]) ]

\* lines 65-72: the demand pool of a day
DailyDemandPool ==
    LET ids == { patients[i].PatientID : i \in 1..Len(patients) }
        last(id) == CHOOSE i \in 1..Len(patients) :
                        /\ patients[i].PatientID = id
                        /\ \A j \in (i + 1)..Len(patients) :
                               patients[j].PatientID # id
    IN  [ id \in { x \in ids :
                     derive_patient_daily_demand(patients[last(x)]) > 0 } |->
            derive_patient_daily_demand(patients[last(id)]) ]

\* lines 91-104: (patient, travel_minutes) of every feasible patient, in
\* input order
RECURSIVE CandidatesFrom(_, _, _, _)
CandidatesFrom(i, employee, location, pool) ==
    IF i > Len(patients) THEN <<>>
    ELSE LET patient == patients[i]
             keep == /\ Get(pool, patient.PatientID) > 0
                     /\ _employee_can_serve(employee, patient)
             entry == [ patient |-> patient,
                        travel_minutes |->
                            get_travel_time(travel_service, location,
                                            LocationOf(patient),
                                            employee.TransportMode) ]
         IN  (IF keep THEN <<entry>> ELSE <<>>)
             \o CandidatesFrom(i + 1, employee, location, pool)

\* (mutant) a sort that puts a later entry before the earlier entries of
\* the same travel time
RECURSIVE InsertBeforeEqual(_, _)
InsertBeforeEqual(sorted, x) ==
    IF sorted = <<>> THEN <<x>>
    ELSE IF x.travel_minutes <= Head(sorted).travel_minutes
         THEN <<x>> \o sorted
         ELSE <<Head(sorted)>> \o InsertBeforeEqual(Tail(sorted), x)

\* list.sort(key=lambda x: x[1]): stable, ascending travel time
RECURSIVE InsertByTravel(_, _)
InsertByTravel(sorted, x) ==
    IF sorted = <<>> THEN <<x>>
    ELSE IF x.travel_minutes < Head(sorted).travel_minutes
         THEN <<x>> \o sorted
         ELSE <<Head(sorted)>> \o InsertByTravel(Tail(sorted), x)

RECURSIVE SortByTravel(_)
SortByTravel(c) ==
    IF c = <<>> THEN <<>>
    ELSE InsertByTravel(SortByTravel(SubSeq(c, 1, Len(c) - 1)), c[Len(c)])

\* (mutant) the visit lasts the default duration whatever demand is left
ProposalIgnoringDemand(candidate, clock, pool) ==
    LET remaining == Get(pool, candidate.patient.PatientID)
        service_minutes ==
            get_default_service_duration(_infer_service_type(candidate.patient))
        proposed_start == clock + candidate.travel_minutes
    IN  [ patient |-> candidate.patient,
          travel_minutes |-> candidate.travel_minutes,
          remaining |-> remaining,
          service_minutes |-> service_minutes,
          proposed_start |-> proposed_start,
          proposed_end |-> proposed_start + service_minutes,
          shrunk |-> FALSE ]

\* (mutant) the visit lasts all the demand that is left
ProposalOfRemainingDemand(candidate, clock, pool) ==
    LET remaining == Get(pool, candidate.patient.PatientID)
        proposed_start == clock + candidate.travel_minutes
    IN  [ patient |-> candidate.patient,
          travel_minutes |-> candidate.travel_minutes,
          remaining |-> remaining,
          service_minutes |-> remaining,
          proposed_start |-> proposed_start,
          proposed_end |-> proposed_start + remaining,
          shrunk |-> FALSE ]

\* (mutant) the visit starts at the clock, the travel not counted
ProposalWithoutTravel(candidate, clock, pool) ==
    LET remaining == Get(pool, candidate.patient.PatientID)
        service_minutes ==
            Min(get_default_service_duration(
                    _infer_service_type(candidate.patient)), remaining)
    IN  [ patient |-> candidate.patient,
          travel_minutes |-> candidate.travel_minutes,
          remaining |-> remaining,
          service_minutes |-> service_minutes,
          proposed_start |-> clock,
          proposed_end |-> clock + service_minutes,
          shrunk |-> FALSE ]

\* lines 113-125 and 159-168: the visit proposed for a candidate
Proposal(candidate, clock, pool) ==
    LET remaining == Get(pool, candidate.patient.PatientID)
        default_minutes ==
            get_default_service_duration(_infer_service_type(candidate.patient))
        service_minutes == Min(default_minutes, remaining)
        proposed_start == clock + candidate.travel_minutes
    IN  [ patient |-> candidate.patient,
          travel_minutes |-> candidate.travel_minutes,
          remaining |-> remaining,
          service_minutes |-> service_minutes,
          proposed_start |-> proposed_start,
          proposed_end |-> proposed_start + service_minutes,
          shrunk |-> FALSE ]

\* (mutant) the visit is left as proposed when it ends after the shift
FitWithoutShrinking(p, send) == p

\* lines 127-134: shrink to fit the shift
FitToShift(p, send) ==
    IF p.proposed_end > send
    THEN [ p EXCEPT !.service_minutes = send - p.proposed_start,
                    !.proposed_end = send,
                    !.shrunk = TRUE ]
    ELSE p

\* lines 150-156: the next candidate after the nearest one
NextCandidates(candidates, employee, pool) ==
    SelectSeq(Tail(candidates),
              LAMBDA c : /\ Get(pool, c.patient.PatientID) > 0
                         /\ _employee_can_serve(employee, c.patient))

\* lines 158-168: the second-nearest candidate's visit
SecondProposal(candidate, clock, pool) ==
    Proposal(candidate, clock, pool)

\* lines 136-142: the overlap check of the nearest candidate's visit
FirstOverlap(rows, employee_id, p) ==
    has_overlap_for_employee(rows, employee_id, p.proposed_start,
                             p.proposed_end)

\* lines 144-147: has the employee served the chosen patient that day
ServedToday(rows, employee_id, p) ==
    has_employee_patient_assignment_on_date(rows, employee_id,
        p.patient.PatientID, p.proposed_start)

\* lines 157-177: the nearest candidate was served today already; rest are
\* the candidates after it
DecideSecond(second, employee, rows) ==
    IF has_overlap_for_employee(rows, employee.EmployeeID,
                                second.proposed_start, second.proposed_end)
    THEN [kind |-> "overlap_second"]
    ELSE [kind |-> "place", path |-> "second", visit |-> second]

\* lines 127-177: first is the visit proposed for the nearest candidate
DecideFirst(first, rest, employee, clock, pool, rows) ==
    IF first.shrunk /\ first.service_minutes < MinVisitMinutes
    THEN [kind |-> "too_small"]
    ELSE IF FirstOverlap(rows, employee.EmployeeID, first)
         THEN [kind |-> "overlap"]
    ELSE IF ~ServedToday(rows, employee.EmployeeID, first)
         THEN [kind |-> "place", path |-> "nearest", visit |-> first]
    ELSE IF rest = <<>> THEN [kind |-> "no_alternative"]
    ELSE CHOOSE d \in
           { DecideSecond(second, employee, rows) :
               second \in {SecondProposal(rest[1], clock, pool)} } : TRUE

\* lines 106-177: candidates is the sorted candidate list
\* (first and rest are each worked out once, then handed on as values)
Decide(candidates, employee, clock, send, pool, rows) ==
    IF candidates = <<>> THEN [kind |-> "no_candidates"]
    ELSE CHOOSE d \in
           { DecideFirst(first, rest, employee, clock, pool, rows) :
               first \in {FitToShift(Proposal(candidates[1], clock, pool),
                                     send)},
               rest \in {NextCandidates(candidates, employee, pool)} } : TRUE

\* One pass through the body of the while loop (lines 90-177): what it
\* decides, and the visit it places when it places one.
Iteration(employee, clock, location, send, pool, rows) ==
    CHOOSE d \in
      { Decide(candidates, employee, clock, send, pool, rows) :
          candidates \in
            { SortByTravel(c) :
                c \in {CandidatesFrom(1, employee, location, pool)} } } :
      TRUE

ThisEmployee == employees[emp_idx]

ThisIteration ==
    Iteration(ThisEmployee, current_time, current_location, shift_end,
              patient_daily_minutes, store)

MaxVisitsOf(employee) ==
    IF employee.max_patients_per_day = 0
    THEN DefaultMaxVisits ELSE employee.max_patients_per_day

\* (mutant) the loop looks at the clock only
LoopConditionWithoutCap == current_time < shift_end

LoopCondition ==
    current_time < shift_end /\ visits_done < MaxVisitsOf(ThisEmployee)

ResetLoopVars ==
    /\ current_time' = 0
    /\ shift_end' = 0
    /\ current_location' = NoLocation
    /\ visits_done' = 0

\* generate_weekly_rota is called (always for the same start date: the
\* Monday after a fixed today).
GenerateWeeklyRota ==
    /\ pc = "idle"
    /\ runs < MaxRuns
    /\ runs' = runs + 1
    /\ pc' = "day"
    /\ day_offset' = 0
    /\ total_created' = 0
    /\ result' = "none"
    /\ UNCHANGED <<cfgVars, store, hist, reanalyses, dayVars, loopVars, reVars>>

\* _generate_daily_rota starts: lines 64-74
StartDay ==
    /\ pc = "day"
    /\ day_offset < DaysPerWeek
    /\ patient_daily_minutes' = DailyDemandPool
    /\ created_count' = 0
    /\ emp_idx' = 1
    /\ pc' = "employee"
    /\ UNCHANGED <<cfgVars, store, hist, runs, reanalyses, result, weekVars,
                   loopVars, reVars>>

\* (mutant) the day's count replaces the total instead of adding to it
EndDayOverwritingTotal ==
    /\ pc = "employee"
    /\ emp_idx > Len(employees)
    /\ total_created' = created_count
    /\ day_offset' = day_offset + 1
    /\ patient_daily_minutes' = NoDemand
    /\ created_count' = 0
    /\ emp_idx' = 0
    /\ pc' = "day"
    /\ UNCHANGED <<cfgVars, store, hist, runs, reanalyses, result, loopVars,
                   reVars>>

\* _generate_daily_rota returns: lines 212, 47-48
EndDay ==
    /\ pc = "employee"
    /\ emp_idx > Len(employees)
    /\ total_created' = total_created + created_count
    /\ day_offset' = day_offset + 1
    /\ patient_daily_minutes' = NoDemand
    /\ created_count' = 0
    /\ emp_idx' = 0
    /\ pc' = "day"
    /\ UNCHANGED <<cfgVars, store, hist, runs, reanalyses, result, loopVars,
                   reVars>>

\* generate_weekly_rota returns: line 51
WeekReturn ==
    /\ pc = "day"
    /\ day_offset = DaysPerWeek
    /\ result' = [created |-> total_created]
    /\ day_offset' = 0
    /\ total_created' = 0
    /\ pc' = "idle"
    /\ UNCHANGED <<cfgVars, store, hist, runs, reanalyses, dayVars, loopVars,
                   reVars>>

\* lines 77-79: an employee whose shift is empty is passed over
SkipEmployee ==
    /\ pc = "employee"
    /\ emp_idx <= Len(employees)
    /\ _parse_shift(ThisEmployee)[1] >= _parse_shift(ThisEmployee)[2]
    /\ emp_idx' = emp_idx + 1
    /\ UNCHANGED <<cfgVars, store, hist, pc, runs, reanalyses, result,
                   weekVars, patient_daily_minutes, created_count, loopVars,
                   reVars>>

\* lines 81-87: the router's state at the start of an employee's day
BeginEmployee ==
    /\ pc = "employee"
    /\ emp_idx <= Len(employees)
    /\ _parse_shift(ThisEmployee)[1] < _parse_shift(ThisEmployee)[2]
    /\ current_time' = Combine(day_offset, _parse_shift(ThisEmployee)[1])
    /\ shift_end' = Combine(day_offset, _parse_shift(ThisEmployee)[2])
    /\ current_location' = LocationOf(ThisEmployee)
    /\ visits_done' = 0
    /\ pc' = "router"
    /\ UNCHANGED <<cfgVars, store, hist, runs, reanalyses, result, weekVars,
                   dayVars, reVars>>

\* line 89: the while condition fails
LoopExit ==
    /\ pc = "router"
    /\ ~LoopCondition
    /\ emp_idx' = emp_idx + 1
    /\ pc' = "employee"
    /\ ResetLoopVars
    /\ UNCHANGED <<cfgVars, store, hist, runs, reanalyses, result, weekVars,
                   patient_daily_minutes, created_count, reVars>>

\* lines 106-107 and 131-132: break
LoopBreak ==
    /\ pc = "router"
    /\ LoopCondition
    /\ ThisIteration.kind \in {"no_candidates", "too_small"}
    /\ emp_idx' = emp_idx + 1
    /\ pc' = "employee"
    /\ ResetLoopVars
    /\ UNCHANGED <<cfgVars, store, hist, runs, reanalyses, result, weekVars,
                   patient_daily_minutes, created_count, reVars>>

\* (mutant) the retry moves the clock by a quarter of an hour
LoopRetryByQuarterHour ==
    /\ pc = "router"
    /\ LoopCondition
    /\ ThisIteration.kind \in {"overlap", "no_alternative", "overlap_second"}
    /\ current_time' = current_time + 15
    /\ UNCHANGED <<cfgVars, store, hist, pc, runs, reanalyses, result,
                   weekVars, dayVars, shift_end, current_location,
                   visits_done, reVars>>

\* (mutant) the retry leaves the clock where it is
LoopRetryWithoutAdvance ==
    /\ pc = "router"
    /\ LoopCondition
    /\ ThisIteration.kind \in {"overlap", "no_alternative", "overlap_second"}
    /\ UNCHANGED vars

\* lines 139-142, 171-173, 174-177: push the clock forward and retry
LoopRetry ==
    /\ pc = "router"
    /\ LoopCondition
    /\ ThisIteration.kind \in {"overlap", "no_alternative", "overlap_second"}
    /\ current_time' = current_time + RetryStepMinutes
    /\ UNCHANGED <<cfgVars, store, hist, pc, runs, reanalyses, result,
                   weekVars, dayVars, shift_end, current_location,
                   visits_done, reVars>>

\* lines 179-200: persist the visit and move on
PlaceVisit ==
    /\ pc = "router"
    /\ LoopCondition
    /\ \E it \in {ThisIteration} :
        /\ it.kind = "place"
        /\ \E v \in {it.visit} :
            /\ store' = log_assignment(store,
                 [ employee_id |-> ThisEmployee.EmployeeID,
                   patient_id |-> v.patient.PatientID,
                   service_type |-> _infer_service_type(v.patient),
                   assigned_time |-> v.proposed_start,
                   start_time |-> v.proposed_start,
                   end_time |-> v.proposed_end,
                   estimated_duration |-> v.service_minutes,
                   travel_time |-> v.travel_minutes,
                   priority_score |-> DefaultPriority,
                   assignment_reason |-> "Scheduled by core engine" ])
            /\ hist' = Append(hist,
                 [ run |-> runs, day |-> day_offset,
                   employee_id |-> ThisEmployee.EmployeeID,
                   path |-> it.path, shrunk |-> v.shrunk,
                   remaining |-> v.remaining,
                   clock |-> current_time ])
            /\ created_count' = created_count + 1
            /\ visits_done' = visits_done + 1
            /\ patient_daily_minutes' =
                 [ id \in DOMAIN patient_daily_minutes
                          \cup {v.patient.PatientID} |->
                     IF id = v.patient.PatientID
                     THEN Max(0, v.remaining - v.service_minutes)
                     ELSE patient_daily_minutes[id] ]
            /\ current_time' = v.proposed_end
            /\ current_location' = LocationOf(v.patient)
    /\ UNCHANGED <<cfgVars, pc, runs, reanalyses, result, weekVars, emp_idx,
                   shift_end, reVars>>

Schedule ==
    \/ GenerateWeeklyRota
    \/ StartDay
    \/ SkipEmployee
    \/ BeginEmployee
    \/ LoopExit
    \/ LoopBreak
    \/ LoopRetry
    \/ PlaceVisit
    \/ EndDay
    \/ WeekReturn


(***************************************************************************)
(* RotaService: the reassignment optimizer.                                *)
(***************************************************************************)
\* (mutant) an unknown patient id yields the first patient of the list
PatientByIdOrFirst(patient_id) ==
    LET hits == { i \in 1..Len(patients) : patients[i].PatientID = patient_id }
    IN  IF hits # {}
        THEN <<patients[CHOOSE i \in hits : \A j \in hits : i <= j]>>
        ELSE IF patients # <<>> THEN <<patients[1]>> ELSE <<>>

get_patient_by_id(patient_id) ==
    LET hits == { i \in 1..Len(patients) : patients[i].PatientID = patient_id }
    IN  IF hits = {} THEN <<>>
        ELSE <<patients[CHOOSE i \in hits : \A j \in hits : i <= j]>>

_in_shift(employee, start, end) ==
    LET day == DateOf(start)
        shift_start == Combine(day, _parse_shift(employee)[1])
        shift_stop == Combine(day, _parse_shift(employee)[2])
    IN  start >= shift_start /\ end <= shift_stop

_employee_same_day_assigned(rows, employee_id, t) ==
    get_employee_assignments_for_date(rows, employee_id, t) # {}

_calc_travel_minutes(employee, patient) ==
    get_travel_time(travel_service, LocationOf(employee), LocationOf(patient),
                    employee.TransportMode)

\* (mutant) the overlap check is left out
IsCandidateIgnoringOverlap(rows, employee, start, end, current_employee_id) ==
    /\ employee.EmployeeID # current_employee_id
    /\ _in_shift(employee, start, end)

\* Whether an employee may be offered the assignment in place of the
\* current one (lines 525-530).
IsCandidate(rows, employee, start, end, current_employee_id) ==
    /\ employee.EmployeeID # current_employee_id
    /\ _in_shift(employee, start, end)
    /\ ~has_overlap_for_employee(rows, employee.EmployeeID, start, end)

_get_candidate_employees(rows, start, end, current_employee_id) ==
    SelectSeq(employees,
              LAMBDA emp : IsCandidate(rows, emp, start, end,
                                       current_employee_id))

\* (mutant) the fallback pool takes busy employees too
IsFallbackIgnoringOverlap(rows, employee, start, end, current_employee_id) ==
    employee.EmployeeID # current_employee_id

\* lines 571-575: the fallback pool ignores the shift window
IsFallback(rows, employee, start, end, current_employee_id) ==
    /\ employee.EmployeeID # current_employee_id
    /\ ~has_overlap_for_employee(rows, employee.EmployeeID, start, end)

FallbackEmployees(rows, start, end, current_employee_id) ==
    SelectSeq(employees,
              LAMBDA emp : IsFallback(rows, emp, start, end,
                                      current_employee_id))

\* The sort key of a candidate: (-same_day, travel) (line 516)
ScoreOf(rows, employee, patient, start) ==
    << IF _employee_same_day_assigned(rows, employee.EmployeeID, start)
       THEN -1 ELSE 0,
       _calc_travel_minutes(employee, patient) >>

\* The sort key in the fallback: (travel) (line 577)
FallbackScoreOf(rows, employee, patient, start) ==
    << _calc_travel_minutes(employee, patient) >>

\* Lexicographic order of tuples of integers
RECURSIVE TupleLess(_, _)
TupleLess(a, b) ==
    /\ a # <<>>
    /\ \/ a[1] < b[1]
       \/ a[1] = b[1] /\ TupleLess(Tail(a), Tail(b))

\* list.sort() of (key..., employee) tuples.  Employee objects define no
\* order, so comparing two tuples whose keys are equal raises TypeError; a
\* comparison sort compares some two entries of equal key whenever there are
\* any, because nothing else decides their order.
SortRaises(pool, key(_)) ==
    \E i, j \in 1..Len(pool) :
        /\ i # j
        /\ key(pool[i]) = key(pool[j])
        /\ pool[i] # pool[j]

SortFirst(pool, key(_)) ==
    pool[CHOOSE i \in 1..Len(pool) :
            \A j \in 1..Len(pool) : j # i => TupleLess(key(pool[i]), key(pool[j]))]

\* lines 568-581: no candidate inside its shift window; fallback is the
\* fallback pool
ChooseFallback(rows, fallback, patient, start) ==
    IF fallback = <<>> THEN [kind |-> "none"]
    ELSE IF SortRaises(fallback,
                       LAMBDA emp : FallbackScoreOf(rows, emp, patient, start))
         THEN [kind |-> "raise"]
    ELSE [kind |-> "update", via |-> "fallback", patient |-> patient,
          chosen |-> SortFirst(fallback,
                       LAMBDA emp : FallbackScoreOf(rows, emp, patient, start))]

\* lines 510-520 and 567-581
ChooseEmployee(rows, candidates, row, patient) ==
    IF candidates = <<>>
    THEN ChooseFallback(rows,
             FallbackEmployees(rows, row.start_time, row.end_time,
                               row.employee_id),
             patient, row.start_time)
    ELSE IF SortRaises(candidates,
                LAMBDA emp : ScoreOf(rows, emp, patient, row.start_time))
         THEN [kind |-> "raise"]
    ELSE [kind |-> "update", via |-> "candidates", patient |-> patient,
          chosen |-> SortFirst(candidates,
                LAMBDA emp : ScoreOf(rows, emp, patient, row.start_time))]

\* lines 558-566
ReanalyzeRow(rows, row, found) ==
    IF found = <<>> THEN [kind |-> "missing"]
    ELSE ChooseEmployee(rows,
             _get_candidate_employees(rows, row.start_time, row.end_time,
                                      row.employee_id),
             row, found[1])

\* What the loop body of reanalyze_assignments does with one id
\* (lines 555-583).
\* (mutant) a set allow_time_change flag keeps the employee as it is
ReanalysisHonouringFlag(rows, aid, allow) ==
    IF ~HasAssignment(rows, aid) THEN [kind |-> "missing"]
    ELSE IF allow THEN [kind |-> "none"]
    ELSE ReanalyzeRow(rows, rows[aid], get_patient_by_id(rows[aid].patient_id))

Reanalysis(rows, aid, allow) ==
    IF ~HasAssignment(rows, aid) THEN [kind |-> "missing"]
    ELSE ReanalyzeRow(rows, rows[aid], get_patient_by_id(rows[aid].patient_id))

\* lines 534-543
_update_assignment_employee(rows, aid, new_employee, patient) ==
    update_assignment(rows, aid,
        [ employee_id |-> new_employee.EmployeeID,
          travel_time |-> _calc_travel_minutes(new_employee, patient),
          reasoning |-> "Reanalyzed and reassigned to nearer available employee",
          priority_score |-> DefaultPriority ])

IdLists ==
    UNION { [1..n -> 1..MaxAssignmentId] : n \in 0..MaxIds }

ThisReanalysis == Reanalysis(store, Head(pending), allow_time_change)

ResetReVars ==
    /\ assignment_ids' = <<>>
    /\ pending' = <<>>
    /\ updated' = <<>>
    /\ allow_time_change' = FALSE

\* reanalyze_assignments is called: line 553
ReanalyzeAssignments ==
    /\ pc = "idle"
    /\ reanalyses < MaxReanalyses
    /\ \E ids \in IdLists, allow \in BOOLEAN :
        /\ assignment_ids' = ids
        /\ pending' = ids
        /\ allow_time_change' = allow
    /\ updated' = <<>>
    /\ reanalyses' = reanalyses + 1
    /\ pc' = "reanalyze"
    /\ result' = "none"
    /\ UNCHANGED <<cfgVars, store, hist, runs, weekVars, dayVars, loopVars>>

\* lines 556-557, 563-564, 580-581: continue without a change
ReanalyzeContinue ==
    /\ pc = "reanalyze"
    /\ pending # <<>>
    /\ ThisReanalysis.kind \in {"missing", "none"}
    /\ pending' = Tail(pending)
    /\ UNCHANGED <<cfgVars, store, hist, pc, runs, reanalyses, result,
                   weekVars, dayVars, loopVars, assignment_ids, updated,
                   allow_time_change>>

\* lines 519, 578: the sort raises and the call ends with the error
ReanalyzeRaise ==
    /\ pc = "reanalyze"
    /\ pending # <<>>
    /\ ThisReanalysis.kind = "raise"
    /\ result' = "TypeError"
    /\ pc' = "idle"
    /\ ResetReVars
    /\ UNCHANGED <<cfgVars, store, hist, runs, reanalyses, weekVars, dayVars,
                   loopVars>>

\* lines 582-583: the assignment goes to the chosen employee
ReanalyzeUpdate ==
    /\ pc = "reanalyze"
    /\ pending # <<>>
    /\ \E r \in {ThisReanalysis} :
        /\ r.kind = "update"
        /\ \E rows \in {_update_assignment_employee(store, Head(pending),
                                                    r.chosen, r.patient)} :
            /\ store' = rows
            /\ updated' = Append(updated, rows[Head(pending)])
    /\ pending' = Tail(pending)
    /\ UNCHANGED <<cfgVars, hist, pc, runs, reanalyses, result, weekVars,
                   dayVars, loopVars, assignment_ids, allow_time_change>>

\* line 593
ReanalyzeReturn ==
    /\ pc = "reanalyze"
    /\ pending = <<>>
    /\ result' = updated
    /\ pc' = "idle"
    /\ ResetReVars
    /\ UNCHANGED <<cfgVars, store, hist, runs, reanalyses, weekVars, dayVars,
                   loopVars>>

Reanalyze ==
    \/ ReanalyzeAssignments
    \/ ReanalyzeContinue
    \/ ReanalyzeRaise
    \/ ReanalyzeUpdate
    \/ ReanalyzeReturn

Next == Schedule \/ Reanalyze

Spec == Init /\ [][Next]_vars


(***************************************************************************)
(* Vocabulary of the properties.                                           *)
(***************************************************************************)
ScheduledReason == "Scheduled by core engine"
ReanalysedReason == "Reanalyzed and reassigned to nearer available employee"

Rows == 1..Len(store)

\* Row i is as the scheduler wrote it: no reanalysis has moved it.
Scheduled(i) == store[i].reasoning = ScheduledReason

EmployeeOf(id) ==
    employees[CHOOSE k \in 1..Len(employees) : employees[k].EmployeeID = id]

PatientOf(id) ==
    patients[CHOOSE k \in 1..Len(patients) : patients[k].PatientID = id]

RowsOverlap(a, b) == a.start_time < b.end_time /\ a.end_time > b.start_time

\* The run in progress, or the last one, started from an empty store.
FirstRunFromEmptyStore == runs = 1 /\ \A i \in Rows : hist[i].run = 1

RECURSIVE PlacedMinutesUpTo(_, _, _, _)
PlacedMinutesUpTo(n, run, day, patient_id) ==
    IF n = 0 THEN 0
    ELSE PlacedMinutesUpTo(n - 1, run, day, patient_id)
         + (IF /\ hist[n].run = run
               /\ hist[n].day = day
               /\ store[n].patient_id = patient_id
            THEN store[n].duration ELSE 0)

\* Minutes the given run placed for a patient in its pass over a day.
PlacedMinutes(run, day, patient_id) ==
    PlacedMinutesUpTo(Len(store), run, day, patient_id)

(***************************************************************************)
(* C1: whatever weekly runs and reanalysis calls have happened since the   *)
(* store was empty, no two distinct stored assignments of one employee     *)
(* overlap in time (a.start < b.end and a.end > b.start).                  *)
(***************************************************************************)
C1_NoOverlap ==
    \A i, j \in Rows :
        (i # j /\ store[i].employee_id = store[j].employee_id)
            => ~RowsOverlap(store[i], store[j])

\* Two runs and a reanalysis are over; a moved assignment shares its day and
\* its new employee with another one, and some employee holds visits of both
\* runs on one day.
C1_Witness ==
    /\ pc = "idle" /\ runs = 2 /\ reanalyses = 1
    /\ \E i, j \in Rows :
        /\ i # j
        /\ store[i].reasoning = ReanalysedReason
        /\ store[i].employee_id = store[j].employee_id
        /\ DateOf(store[i].start_time) = DateOf(store[j].start_time)
    /\ \E a, b \in Rows :
        /\ hist[a].run = 1 /\ hist[b].run = 2
        /\ store[a].employee_id = store[b].employee_id
        /\ DateOf(store[a].start_time) = DateOf(store[b].start_time)

(***************************************************************************)
(* C2: in a weekly run that starts from an empty store, no employee gets   *)
(* two assignments with the same patient starting on the same calendar     *)
(* day.                                                                    *)
(***************************************************************************)
C2_OncePerPatientPerDay ==
    (FirstRunFromEmptyStore /\ \A i \in Rows : Scheduled(i)) =>
        \A i, j \in Rows :
            (/\ i # j
             /\ store[i].employee_id = store[j].employee_id
             /\ store[i].patient_id = store[j].patient_id)
                => DateOf(store[i].start_time) # DateOf(store[j].start_time)

(***************************************************************************)
(* C3: every assignment the scheduler created pairs an employee and a      *)
(* patient that pass the eligibility filter: a medicine assignment has a   *)
(* Nurse, and a patient whose preferred language is not English has an     *)
(* employee whose spoken languages contain it; visits placed through the   *)
(* second-nearest-candidate path included.                                 *)
(***************************************************************************)
PreferredLanguage(patient) == Lower(Strip(patient.LanguagePreference))

PrefersOtherThanEnglish(patient) ==
    PreferredLanguage(patient) \notin {<<>>, KwEnglish}

Speaks(employee, language) == Contains(language, Lower(employee.LanguageSpoken))

C3_ScheduledPairsEligible ==
    \A i \in Rows :
        Scheduled(i) =>
            LET employee == EmployeeOf(store[i].employee_id)
                patient == PatientOf(store[i].patient_id)
            IN  /\ store[i].service_type = "medicine"
                    => employee.Qualification = "Nurse"
                /\ PrefersOtherThanEnglish(patient)
                    => Speaks(employee, PreferredLanguage(patient))

\* A medicine visit placed through the second-candidate path while an
\* employee who is no Nurse is on the rota, and a visit to a patient who
\* prefers another language while an employee who does not speak it is.
C3_Witness ==
    /\ \E i \in Rows :
        /\ Scheduled(i)
        /\ hist[i].path = "second"
        /\ store[i].service_type = "medicine"
    /\ \E k \in 1..Len(employees) : employees[k].Qualification # "Nurse"
    /\ \E i \in Rows :
        /\ Scheduled(i)
        /\ PrefersOtherThanEnglish(PatientOf(store[i].patient_id))
        /\ \E k \in 1..Len(employees) :
              ~Speaks(employees[k],
                      PreferredLanguage(PatientOf(store[i].patient_id)))

(***************************************************************************)
(* C4: every assignment the scheduler created starts at or after its       *)
(* employee's shift earliest-start and ends at or before the shift         *)
(* latest-end of that day, and one whose duration was shrunk to fit the    *)
(* shift lasts at least 15 minutes.                                        *)
(***************************************************************************)
C4_WithinShift ==
    \A i \in Rows :
        Scheduled(i) =>
            LET shift == _parse_shift(EmployeeOf(store[i].employee_id))
            IN  /\ store[i].start_time >= Combine(hist[i].day, shift[1])
                /\ store[i].end_time <= Combine(hist[i].day, shift[2])
                /\ hist[i].shrunk => store[i].duration >= MinVisitMinutes

(***************************************************************************)
(* C5: within one weekly run, for every patient and day, the durations of  *)
(* the visits placed for the patient that day sum to at most the day's     *)
(* estimated demand, and the patient's remaining-demand entry is never     *)
(* negative and equals the demand minus the minutes placed so far.         *)
(***************************************************************************)
C5_DemandNeverExceeded ==
    /\ \A run \in 1..runs, day \in 0..(DaysPerWeek - 1),
          k \in 1..Len(patients) :
          PlacedMinutes(run, day, patients[k].PatientID)
              <= derive_patient_daily_demand(patients[k])
    /\ pc \in {"employee", "router"} =>
          \A k \in 1..Len(patients) :
              LET id == patients[k].PatientID
              IN  /\ id \in DOMAIN patient_daily_minutes
                  /\ patient_daily_minutes[id] >= 0
                  /\ patient_daily_minutes[id] =
                        derive_patient_daily_demand(patients[k])
                        - PlacedMinutes(runs, day_offset, id)

\* A patient's demand of the day is used up by two visits, the second one
\* cut to what was left.
C5_Witness ==
    /\ pc = "router"
    /\ \E i, j \in Rows :
        /\ i < j
        /\ hist[i].run = runs /\ hist[j].run = runs
        /\ hist[i].day = day_offset /\ hist[j].day = day_offset
        /\ store[i].patient_id = store[j].patient_id
        /\ patient_daily_minutes[store[i].patient_id] = 0
        /\ store[j].duration <
              get_default_service_duration(store[j].service_type)

(***************************************************************************)
(* C6: an assignment that reanalysis has moved has an employee who meets   *)
(* the qualification and language constraints of its patient: a medicine   *)
(* assignment is with a Nurse, and a patient whose preferred language is   *)
(* not English is with an employee who speaks it.                          *)
(***************************************************************************)
C6_MigratedPairsEligible ==
    \A i \in Rows :
        store[i].reasoning = ReanalysedReason =>
            LET employee == EmployeeOf(store[i].employee_id)
                patient == PatientOf(store[i].patient_id)
            IN  /\ store[i].service_type = "medicine"
                    => employee.Qualification = "Nurse"
                /\ PrefersOtherThanEnglish(patient)
                    => Speaks(employee, PreferredLanguage(patient))

(***************************************************************************)
(* C7: when reanalysis processes a stored assignment and every employee    *)
(* other than its current one has a commitment overlapping [start, end],   *)
(* the store stays as it is, no error is raised and nothing is added to    *)
(* the list the call returns.                                              *)
(***************************************************************************)
Busy(employee_id, row) ==
    \E j \in Rows :
        store[j].employee_id = employee_id /\ RowsOverlap(store[j], row)

NobodyElseFree(aid) ==
    /\ aid \in Rows
    /\ \A k \in 1..Len(employees) :
          employees[k].EmployeeID # store[aid].employee_id
              => Busy(employees[k].EmployeeID, store[aid])

C7_NoCandidateNoChange ==
    [][ (pc = "reanalyze" /\ pending # <<>> /\ NobodyElseFree(Head(pending)))
            => /\ store' = store
               /\ updated' = updated
               /\ result' = result
               /\ pc' = "reanalyze"
               /\ pending' = Tail(pending) ]_vars

\* The id processed last names an assignment that another employee of the
\* rota could not take for being busy; it is still with the scheduler's
\* employee and the list to return is empty.
C7_Witness ==
    /\ pc = "reanalyze"
    /\ Len(pending) < Len(assignment_ids)
    /\ Len(employees) >= 2
    /\ updated = <<>>
    /\ \E aid \in {assignment_ids[Len(assignment_ids) - Len(pending)]} :
        /\ NobodyElseFree(aid)
        /\ Scheduled(aid)
        /\ store[aid].employee_id = hist[aid].employee_id

(***************************************************************************)
(* C8: reanalysis never changes the start time, end time, duration,        *)
(* patient or service type of an assignment, and allow_time_change has no  *)
(* effect: every step of a call does to the store and to the returned      *)
(* list what it does under either value of the flag, so the two calls end  *)
(* in the same store with the same list.                                   *)
(***************************************************************************)
SameVisit(a, b) ==
    /\ a.id = b.id
    /\ a.start_time = b.start_time
    /\ a.end_time = b.end_time
    /\ a.assigned_time = b.assigned_time
    /\ a.duration = b.duration
    /\ a.patient_id = b.patient_id
    /\ a.service_type = b.service_type

StepUnder(allow) ==
    \E r \in {Reanalysis(store, Head(pending), allow)} :
        CASE r.kind = "update" ->
                /\ store' = _update_assignment_employee(store, Head(pending),
                                                        r.chosen, r.patient)
                /\ updated' = Append(updated, store'[Head(pending)])
                /\ result' = result
          [] r.kind = "raise" ->
                /\ store' = store
                /\ result' = "TypeError"
          [] OTHER ->
                /\ store' = store
                /\ updated' = updated
                /\ result' = result

C8_TimesAndFlagWithoutEffect ==
    [][ pc = "reanalyze" =>
            /\ Len(store') = Len(store)
            /\ \A i \in Rows : SameVisit(store[i], store'[i])
            /\ pending # <<>> => (StepUnder(TRUE) /\ StepUnder(FALSE)) ]_vars

\* A call made with allow_time_change set has moved an assignment.
C8_Witness ==
    /\ pc = "reanalyze"
    /\ allow_time_change
    /\ updated # <<>>
    /\ \E i \in Rows :
        /\ store[i].reasoning = ReanalysedReason
        /\ store[i].employee_id # hist[i].employee_id
        /\ updated[1] = store[i]

(***************************************************************************)
(* C9: with one employee on a 09:00-17:00 shift and one patient needing    *)
(* 60 minutes of exercise who lives 10 minutes of travel from the          *)
(* employee's base, the first visit placed starts at 09:10 and ends at     *)
(* 09:40, the default 30 minutes of an exercise visit (as stated, the      *)
(* claim has it end at 10:10).                                             *)
(***************************************************************************)
ScenarioA ==
    /\ Len(employees) = 1
    /\ Len(patients) = 1
    /\ _parse_shift(employees[1]) = <<9 * 60, 17 * 60>>
    /\ _infer_service_type(patients[1]) = "exercise"
    /\ _parse_services(patients[1].RequiredSupport) = <<"exercise">>
    /\ derive_patient_daily_demand(patients[1]) = 60
    /\ _calc_travel_minutes(employees[1], patients[1]) = 10

C9_FirstVisitOfScenarioA ==
    (ScenarioA /\ store # <<>>) =>
        /\ store[1].start_time = Combine(0, 9 * 60 + 10)
        /\ store[1].end_time = Combine(0, 9 * 60 + 40)
        /\ store[1].duration = 30
        /\ store[1].travel_time = 10

\* The claim as stated: the visit ends at 10:10.
C9_FirstVisitAsStated ==
    (ScenarioA /\ store # <<>>) =>
        /\ store[1].start_time = Combine(0, 9 * 60 + 10)
        /\ store[1].end_time = Combine(0, 10 * 60 + 10)

\* The first visit of scenario A has been placed.
C9_Witness ==
    /\ ScenarioA
    /\ Len(store) = 1
    /\ hist[1].run = 1 /\ hist[1].day = 0 /\ hist[1].path = "nearest"
    /\ hist[1].clock = 9 * 60
    /\ hist[1].remaining = 60

(***************************************************************************)
(* C10: _employee_can_serve is false exactly when (a) the patient's        *)
(* required support contains medicine and the employee is no Nurse, or     *)
(* (b) the patient's preferred language is set, is not English whatever    *)
(* its case, and does not occur in the employee's spoken languages;        *)
(* so a patient needing medicine gets no assignment when no employee of    *)
(* the rota is a Nurse.                                                    *)
(***************************************************************************)
RequiresMedicine(patient) ==
    \E k \in DOMAIN _parse_services(patient.RequiredSupport) :
        _parse_services(patient.RequiredSupport)[k] = "medicine"

Rejected(employee, patient) ==
    \/ RequiresMedicine(patient) /\ employee.Qualification # "Nurse"
    \/ /\ PrefersOtherThanEnglish(patient)
       /\ ~Speaks(employee, PreferredLanguage(patient))

C10_CanServeExactly ==
    /\ \A k \in 1..Len(employees), l \in 1..Len(patients) :
          _employee_can_serve(employees[k], patients[l])
              <=> ~Rejected(employees[k], patients[l])
    /\ \A l \in 1..Len(patients) :
          (/\ RequiresMedicine(patients[l])
           /\ \A k \in 1..Len(employees) :
                 employees[k].Qualification # "Nurse")
              => \A i \in Rows : store[i].patient_id # patients[l].PatientID

\* A run is over in which the only employee, who is no Nurse, served another
\* patient and the patient needing medicine got nothing; the employee was
\* turned down for (a) alone and accepted for a patient of another language.
C10_Witness ==
    /\ pc = "idle" /\ runs >= 1
    /\ store # <<>>
    /\ \A k \in 1..Len(employees) : employees[k].Qualification # "Nurse"
    /\ \E l \in 1..Len(patients) :
        /\ RequiresMedicine(patients[l])
        /\ ~PrefersOtherThanEnglish(patients[l])
        /\ ~_employee_can_serve(employees[1], patients[l])
        /\ \A i \in Rows : store[i].patient_id # patients[l].PatientID
    /\ \E l \in 1..Len(patients) :
        /\ PrefersOtherThanEnglish(patients[l])
        /\ _employee_can_serve(employees[1], patients[l])

(***************************************************************************)
(* The Demand Estimator on its own: a patient is loaded and                *)
(* derive_patient_daily_demand is called once for it.                      *)
(***************************************************************************)
MaxWeeklyHours == 9

SupNone == <<>>
SupCompanionship == <<"c","o","m","p","a","n","i","o","n","s","h","i","p">>
SupGardening == <<"G","a","r","d","e","n","i","n","g">>
SupMedicineCareCompany ==
    <<"M","E","D","I","C","I","N","E",","," ","c","a","r","e",",",
      "C","o","m","p","a","n","i","o","n">>
SupExerciseTwice ==
    <<"E","x","e","r","c","i","s","e",","," ",",","e","x","e","r","c","i","s","e",
      ","," ","M","e","d","i","c","i","n","e">>
SupExerciseGardening ==
    <<"G","a","r","d","e","n","i","n","g",",","E","x","e","r","c","i","s","e">>

Supports ==
    { SupNone, SupExercise, SupMedicineExercise, SupPersonalCare,
      SupCompanionship, SupGardening, SupMedicineCareCompany,
      SupExerciseTwice, SupExerciseGardening }

DemandPatients ==
    { [ PatEx EXCEPT !.RequiredSupport = sup, !.RequiredHoursOfSupport = h ] :
        sup \in Supports, h \in 0..MaxWeeklyHours }

\* Nothing has been called yet.
AtRest ==
    /\ store = <<>>
    /\ hist = <<>>
    /\ pc = "idle"
    /\ runs = 0
    /\ reanalyses = 0
    /\ result = "none"
    /\ day_offset = 0
    /\ total_created = 0
    /\ patient_daily_minutes = NoDemand
    /\ created_count = 0
    /\ emp_idx = 0
    /\ current_time = 0
    /\ shift_end = 0
    /\ visits_done = 0
    /\ assignment_ids = <<>>
    /\ pending = <<>>
    /\ updated = <<>>
    /\ allow_time_change = FALSE

InitDemand ==
    /\ \E patient \in DemandPatients : patients = <<patient>>
    /\ employees = <<>>
    /\ travel_service = FastService
    /\ current_location = NoLocation
    /\ AtRest

\* derive_patient_daily_demand(patient) returns
DeriveDemand ==
    /\ pc = "idle"
    /\ result' = derive_patient_daily_demand(patients[1])
    /\ pc' = "returned"
    /\ UNCHANGED <<cfgVars, store, hist, runs, reanalyses, weekVars, dayVars,
                   loopVars, reVars>>

SpecDemand == InitDemand /\ [][DeriveDemand]_vars

(***************************************************************************)
(* C11: the daily demand of a patient is max(15, floor(hours * 60 / 7))    *)
(* when the weekly hours are above 0 (7 hours give 60), and otherwise      *)
(* max(60, sum of the default durations of the categories listed), with    *)
(* medicine 30, personal care 45, exercise 30 and companionship 60, which  *)
(* is 60 when no category is listed; it is always at least 15.             *)
(***************************************************************************)
\* The default minutes of what one entry of the support list names, 0 when
\* it names no category.
ListedMinutes(entry) ==
    CASE Contains(KwMedicine, Lower(entry)) -> 30
      [] Contains(KwExercise, Lower(entry)) -> 30
      [] Contains(KwCompanion, Lower(entry)) -> 60
      [] Contains(KwPersonal, Lower(entry)) \/ Contains(KwCare, Lower(entry))
            -> 45
      [] OTHER -> 0

RECURSIVE ListedTotal(_)
ListedTotal(entries) ==
    IF entries = <<>> THEN 0
    ELSE ListedMinutes(Head(entries)) + ListedTotal(Tail(entries))

C11_DailyDemand ==
    pc = "returned" =>
        \E hours \in {patients[1].RequiredHoursOfSupport},
           listed \in {ListedTotal(ParseList(patients[1].RequiredSupport))} :
            /\ hours > 0 =>
                  \E q \in 0..(hours * 60) :
                      /\ 7 * q <= hours * 60
                      /\ hours * 60 < 7 * (q + 1)
                      /\ result = IF q > 15 THEN q ELSE 15
            /\ hours = 7 => result = 60
            /\ hours <= 0 => result = IF listed > 60 THEN listed ELSE 60
            /\ (hours <= 0 /\ listed = 0) => result = 60
            /\ result >= 15

\* The demand of a patient without weekly hours whose listed categories add
\* up to more than an hour.
C11_Witness ==
    /\ pc = "returned"
    /\ patients[1].RequiredHoursOfSupport = 0
    /\ patients[1].RequiredSupport = SupMedicineCareCompany
    /\ result = 30 + 45 + 60

(***************************************************************************)
(* C12: when no employee other than the current one both covers            *)
(* [start, end] within the shift window and is free of overlapping         *)
(* commitments, reanalysis moves the assignment to the other employee      *)
(* with the smallest travel time to the patient among those free of        *)
(* overlapping commitments, inside the shift window or not.                *)
(***************************************************************************)
\* The employees other than the current one of row aid without a commitment
\* overlapping it, as positions in the employee list.
FreeOthers(aid) ==
    { k \in 1..Len(employees) :
        /\ employees[k].EmployeeID # store[aid].employee_id
        /\ ~Busy(employees[k].EmployeeID, store[aid]) }

NoneFreeInShift(aid) ==
    \A k \in FreeOthers(aid) :
        ~_in_shift(employees[k], store[aid].start_time, store[aid].end_time)

NearestOf(ks, patient) ==
    { k \in ks :
        \A l \in ks : _calc_travel_minutes(employees[k], patient)
                        <= _calc_travel_minutes(employees[l], patient) }

C12_FallbackToNearestFree ==
    [][ (/\ pc = "reanalyze"
         /\ pending # <<>>
         /\ Head(pending) \in Rows
         /\ get_patient_by_id(store[Head(pending)].patient_id) # <<>>
         /\ FreeOthers(Head(pending)) # {}
         /\ NoneFreeInShift(Head(pending)))
            => \E k \in NearestOf(FreeOthers(Head(pending)),
                                  PatientOf(store[Head(pending)].patient_id)) :
                  /\ store'[Head(pending)].employee_id
                        = employees[k].EmployeeID
                  /\ updated' = Append(updated, store'[Head(pending)]) ]_vars

(***************************************************************************)
(* The rota service while the data changes under it: between calls, a      *)
(* data file may be uploaded whose patient sheet no longer lists the       *)
(* first patient (process_excel_file replaces the patient list).           *)
(***************************************************************************)
UploadData ==
    /\ pc = "idle"
    /\ patients # <<>>
    /\ patients' = Tail(patients)
    /\ result' = [ employees_count |-> Len(employees),
                   patients_count |-> Len(patients) - 1 ]
    /\ UNCHANGED <<employees, travel_service, store, hist, pc, runs,
                   reanalyses, weekVars, dayVars, loopVars, reVars>>

NextUpload == Next \/ UploadData

SpecUpload == Init /\ [][NextUpload]_vars

(***************************************************************************)
(* C13: reanalysis returns exactly the records, as they are after the      *)
(* change, of the assignments it updated, in input order; an id that is    *)
(* not in the store, or whose patient is no longer loaded, is skipped      *)
(* without an error, changes nothing in the store and does not stop the    *)
(* processing of the ids after it.                                         *)
(***************************************************************************)
PatientLoaded(patient_id) ==
    \E k \in 1..Len(patients) : patients[k].PatientID = patient_id

Unreferenced(aid) ==
    \/ aid \notin Rows
    \/ ~PatientLoaded(store[aid].patient_id)

C13_UpdatedRecordsReturned ==
    [][ pc = "reanalyze" =>
          /\ (pending # <<>> /\ Unreferenced(Head(pending))) =>
                /\ store' = store
                /\ updated' = updated
                /\ result' = result
                /\ pc' = "reanalyze"
                /\ pending' = Tail(pending)
          /\ store' # store =>
                /\ pending # <<>>
                /\ \A i \in Rows : i # Head(pending) => store'[i] = store[i]
                /\ updated' = Append(updated, store'[Head(pending)])
                /\ pending' = Tail(pending)
          /\ (store' = store /\ pc' = "reanalyze") => updated' = updated
          /\ pending = <<>> => (result' = updated /\ store' = store) ]_vars

\* Both ids of a call have been processed: the first names an assignment
\* whose patient is no longer loaded and is as the scheduler wrote it, the
\* second was moved and is the only record to return.
C13_Witness ==
    /\ pc = "reanalyze"
    /\ pending = <<>>
    /\ Len(assignment_ids) = 2
    /\ assignment_ids[1] \in Rows /\ assignment_ids[2] \in Rows
    /\ ~PatientLoaded(store[assignment_ids[1]].patient_id)
    /\ Scheduled(assignment_ids[1])
    /\ updated = <<store[assignment_ids[2]]>>
    /\ store[assignment_ids[2]].reasoning = ReanalysedReason

(***************************************************************************)
(* C14: a weekly run returns a created-count equal to the number of        *)
(* assignments it added to the store over its 7 days, and every visit is   *)
(* in the store as soon as it is counted, before the router looks for the  *)
(* next one: at any point of a run the store holds all visits placed so    *)
(* far.                                                                    *)
(***************************************************************************)
AddedBy(run) == Cardinality({ i \in Rows : hist[i].run = run })

C14_CountIsWhatWasStored ==
    /\ [](pc \in {"day", "employee", "router"} =>
            /\ total_created + created_count = AddedBy(runs)
            /\ Len(hist) = Len(store))
    /\ [][ /\ (pc = "day" /\ pc' = "idle") =>
                /\ day_offset = DaysPerWeek
                /\ result' = [created |-> AddedBy(runs)]
                /\ store' = store
           /\ (pc = "router" /\ pc' = "router"
                             /\ visits_done' # visits_done) =>
                /\ visits_done' = visits_done + 1
                /\ created_count' = created_count + 1
                /\ Len(store') = Len(store) + 1
                /\ store'[Len(store')].employee_id = ThisEmployee.EmployeeID
                /\ store'[Len(store')].end_time = current_time'
                /\ \A i \in Rows : store'[i] = store[i] ]_vars

\* In the middle of a second run: earlier days of the run have added rows
\* to those of the first run, and the employee at work has just had a visit
\* stored.
C14_Witness ==
    /\ pc = "router"
    /\ runs = 2
    /\ total_created >= 1
    /\ created_count >= 1
    /\ visits_done >= 1
    /\ AddedBy(1) >= 1
    /\ Len(store) = AddedBy(1) + total_created + created_count

(***************************************************************************)
(* C15: at the start of each of the 7 days of a weekly run the demand pool *)
(* holds, for every patient, the patient's full daily demand, whatever was *)
(* placed for the patient on earlier days of the week: demand used up on   *)
(* one day does not reduce the demand of a later day.                      *)
(***************************************************************************)
C15_DemandResetsDaily ==
    [][ (pc = "day" /\ pc' = "employee") =>
            /\ day_offset \in 0..(DaysPerWeek - 1)
            /\ day_offset' = day_offset
            /\ \A k \in 1..Len(patients) :
                  /\ patients[k].PatientID \in DOMAIN patient_daily_minutes'
                  /\ patient_daily_minutes'[patients[k].PatientID]
                        = derive_patient_daily_demand(patients[k]) ]_vars

\* A later day of the week starts with the full demand of a patient whose
\* demand of the day before was used up.
C15_Witness ==
    /\ pc = "employee"
    /\ emp_idx = 1
    /\ day_offset >= 1
    /\ \E k \in 1..Len(patients) :
        /\ PlacedMinutes(runs, day_offset - 1, patients[k].PatientID)
              = derive_patient_daily_demand(patients[k])
        /\ PlacedMinutes(runs, day_offset, patients[k].PatientID) = 0
        /\ patient_daily_minutes[patients[k].PatientID]
              = derive_patient_daily_demand(patients[k])

(***************************************************************************)
(* TravelService.get_travel_time on its own: every kind of provider, the   *)
(* transport modes of the schema, and origins and destinations that are    *)
(* the locations of the employees and patients of the model, the empty     *)
(* location included.                                                      *)
(***************************************************************************)
TransportModes == {"Car", "Walking", "Bicycle", "Public Transport"}

\* A provider with use of the remote service switched on but no client.
NoClientService ==
    [ fast_scheduler |-> FALSE, client |-> "none", duration_value |-> 0 ]

TravelServices ==
    {FastService, NoClientService} \cup ApiServices
      \cup { [ fast_scheduler |-> FALSE, client |-> "ok",
               duration_value |-> d ] : d \in {0, 59, 10800, 10860} }

PatNowhere == [ PatEx EXCEPT !.PatientID = "P0", !.Address = "",
                             !.PostCode = <<>> ]

TravelDestinations == {PatEx, PatMed, PatUrdu, PatNowhere}

TravelOrigins ==
    { LocationOf(x) : x \in {EmpNurse, EmpSenior, EmpNoShift}
                             \cup TravelDestinations }

InitTravel ==
    /\ travel_service \in TravelServices
    /\ \E mode \in TransportModes :
          employees = << [ EmpNurse EXCEPT !.TransportMode = mode ] >>
    /\ \E patient \in TravelDestinations : patients = <<patient>>
    /\ current_location \in TravelOrigins
    /\ AtRest

\* get_travel_time(origin, destination, mode) returns
GetTravelTime ==
    /\ pc = "idle"
    /\ result' = get_travel_time(travel_service, current_location,
                                 LocationOf(patients[1]),
                                 employees[1].TransportMode)
    /\ pc' = "returned"
    /\ UNCHANGED <<cfgVars, store, hist, runs, reanalyses, weekVars, dayVars,
                   loopVars, reVars>>

SpecTravel == InitTravel /\ [][GetTravelTime]_vars

(***************************************************************************)
(* C16: get_travel_time returns a whole number of minutes between 1 and    *)
(* 180 for every origin, destination and mode, also when the remote lookup *)
(* is not available or raises.                                             *)
(***************************************************************************)
C16_TravelTimeInRange ==
    pc = "returned" => result \in TravelFloor..TravelCap

\* The remote lookup raised, and the other cases the clamp is there for: a
\* remote answer above the cap, and a remote answer of less than a minute.
C16_Witness ==
    /\ pc = "returned"
    /\ travel_service.client = "raises"
    /\ result \in TravelFloor..TravelCap

C16_WitnessCapped ==
    /\ pc = "returned"
    /\ travel_service.client = "ok"
    /\ travel_service.duration_value \div 60 > TravelCap
    /\ ~IsEmptyLocation(current_location)
    /\ ~IsEmptyLocation(LocationOf(patients[1]))
    /\ current_location # LocationOf(patients[1])
    /\ result = TravelCap

(***************************************************************************)
(* C17: get_travel_time returns 0 when the origin and the destination are  *)
(* the same location.                                                      *)
(***************************************************************************)
C17_SameLocationIsZero ==
    (/\ pc = "returned"
     /\ ~IsEmptyLocation(current_location)
     /\ current_location = LocationOf(patients[1])) => result = 0

\* What the program returns for the same location: the floor of the clamp,
\* and 10 more than the base of 0 on foot.
C17_SameLocationAsBuilt ==
    (/\ pc = "returned"
     /\ ~IsEmptyLocation(current_location)
     /\ current_location = LocationOf(patients[1])) =>
        result = IF employees[1].TransportMode = "Walking"
                    /\ (travel_service.fast_scheduler
                          \/ travel_service.client = "none")
                 THEN 10 ELSE TravelFloor

(***************************************************************************)
(* C18: each iteration of the router attempts the patient the employee can *)
(* serve, with demand left, whose travel time from the employee's current  *)
(* location is smallest, the first such patient in input order on a tie.   *)
(* The current location is the employee's home before the first visit of   *)
(* the day and the address of the last patient visited afterwards.         *)
(***************************************************************************)
\* Positions in the patient list of the patients the router may visit now.
EligibleNow ==
    { k \in 1..Len(patients) :
        /\ Get(patient_daily_minutes, patients[k].PatientID) > 0
        /\ _employee_can_serve(ThisEmployee, patients[k]) }

TravelFromHere(k) ==
    get_travel_time(travel_service, current_location,
                    LocationOf(patients[k]), ThisEmployee.TransportMode)

NearestNow ==
    CHOOSE k \in EligibleNow :
        \A j \in EligibleNow :
            \/ TravelFromHere(k) < TravelFromHere(j)
            \/ TravelFromHere(k) = TravelFromHere(j) /\ k <= j

C18_NearestFirst ==
    [][ /\ (pc = "employee" /\ pc' = "router") =>
              /\ current_location' = LocationOf(ThisEmployee)
              /\ visits_done' = 0
        /\ (pc = "router" /\ pc' = "router" /\ store' = store) =>
              current_location' = current_location
        /\ (pc = "router" /\ pc' = "router" /\ store' # store) =>
              /\ EligibleNow # {}
              /\ Len(store') = Len(store) + 1
              /\ LET row == store'[Len(store')]
                     how == hist'[Len(store')]
                     nearest == patients[NearestNow]
                 IN  /\ how.path = "nearest" =>
                           /\ row.patient_id = nearest.PatientID
                           /\ row.travel_time = TravelFromHere(NearestNow)
                           /\ row.start_time
                                = current_time + TravelFromHere(NearestNow)
                     /\ how.path # "nearest" =>
                           /\ row.patient_id # nearest.PatientID
                           /\ has_employee_patient_assignment_on_date(
                                 store, ThisEmployee.EmployeeID,
                                 nearest.PatientID,
                                 current_time + TravelFromHere(NearestNow))
                     /\ \E k \in EligibleNow :
                           /\ patients[k].PatientID = row.patient_id
                           /\ current_location' = LocationOf(patients[k]) ]_vars

\* The first visit of a run went to the first of two patients, both
\* eligible and both as far from the employee's home.
C18_Witness ==
    /\ Len(store) = 1
    /\ Len(patients) = 2
    /\ \A k \in 1..2 :
          /\ _employee_can_serve(employees[1], patients[k])
          /\ derive_patient_daily_demand(patients[k]) > 0
    /\ get_travel_time(travel_service, LocationOf(employees[1]),
                       LocationOf(patients[1]), employees[1].TransportMode)
         = get_travel_time(travel_service, LocationOf(employees[1]),
                           LocationOf(patients[2]),
                           employees[1].TransportMode)
    /\ store[1].employee_id = employees[1].EmployeeID
    /\ store[1].patient_id = patients[1].PatientID
    /\ hist[1].path = "nearest"
    /\ hist[1].day = 0

\* A later visit of an employee's day went to the patient nearest to the
\* address of the patient visited before.
C18_WitnessChained ==
    /\ pc = "router"
    /\ visits_done >= 2
    /\ Len(store) >= 2
    /\ \E k \in 1..Len(patients) :
          /\ patients[k].PatientID = store[Len(store) - 1].patient_id
          /\ store[Len(store)].travel_time
               = get_travel_time(travel_service, LocationOf(patients[k]),
                                 LocationOf(PatientOf(store[Len(store)].patient_id)),
                                 ThisEmployee.TransportMode)
          /\ store[Len(store)].travel_time
               # get_travel_time(travel_service, LocationOf(ThisEmployee),
                                 LocationOf(PatientOf(store[Len(store)].patient_id)),
                                 ThisEmployee.TransportMode)

(***************************************************************************)
(* C19: the duration of a placed visit that was not shrunk to fit the      *)
(* shift is the smaller of the default duration of its service type and    *)
(* the patient's remaining demand at the time of placement.                *)
(***************************************************************************)
C19_DurationOfUnshrunkVisit ==
    [][ (pc = "router" /\ pc' = "router" /\ Len(store') = Len(store) + 1) =>
          LET row == store'[Len(store')]
              remaining == Get(patient_daily_minutes, row.patient_id)
              default_minutes == get_default_service_duration(row.service_type)
              full == IF default_minutes < remaining
                      THEN default_minutes ELSE remaining
          IN  /\ remaining > 0
              /\ row.service_type = _infer_service_type(PatientOf(row.patient_id))
              /\ (hist'[Len(store')].path = "nearest"
                    /\ row.start_time + full <= shift_end)
                   => ~hist'[Len(store')].shrunk
              /\ ~hist'[Len(store')].shrunk =>
                   /\ row.duration = full
                   /\ row.end_time = row.start_time + full ]_vars

\* An unshrunk visit cut to the demand that was left, and one of the
\* default duration with more demand left.
C19_Witness ==
    \E i \in Rows :
        /\ ~hist[i].shrunk
        /\ hist[i].remaining
             < get_default_service_duration(store[i].service_type)
        /\ store[i].duration = hist[i].remaining

C19_WitnessDefault ==
    \E i \in Rows :
        /\ ~hist[i].shrunk
        /\ hist[i].remaining
             > get_default_service_duration(store[i].service_type)
        /\ store[i].duration
             = get_default_service_duration(store[i].service_type)

(***************************************************************************)
(* C20: when the visit of the nearest candidate would end after the end of *)
(* the employee's shift, its duration is shrunk to the minutes between its *)
(* start and the shift end; when fewer than 15 minutes are left, no        *)
(* further visit is placed for that employee that day and the run goes on  *)
(* with the next employee and the following days.                          *)
(***************************************************************************)
\* The visit of the nearest candidate as first proposed.
NearestStart == current_time + TravelFromHere(NearestNow)

NearestFull ==
    LET patient == patients[NearestNow]
        remaining == Get(patient_daily_minutes, patient.PatientID)
        default_minutes ==
            get_default_service_duration(_infer_service_type(patient))
    IN  IF default_minutes < remaining THEN default_minutes ELSE remaining

WouldEndAfterShift ==
    /\ pc = "router"
    /\ LoopCondition
    /\ EligibleNow # {}
    /\ NearestStart + NearestFull > shift_end

C20_ShrinkOrStop ==
    [][ /\ (WouldEndAfterShift /\ shift_end - NearestStart < MinVisitMinutes) =>
              /\ store' = store
              /\ pc' = "employee"
              /\ emp_idx' = emp_idx + 1
              /\ UNCHANGED <<runs, day_offset, total_created, created_count,
                             patient_daily_minutes>>
        /\ (WouldEndAfterShift /\ store' # store
              /\ hist'[Len(store')].path = "nearest") =>
              LET row == store'[Len(store')]
              IN  /\ hist'[Len(store')].shrunk
                  /\ row.patient_id = patients[NearestNow].PatientID
                  /\ row.start_time = NearestStart
                  /\ row.duration = shift_end - NearestStart
                  /\ row.duration >= MinVisitMinutes
                  /\ row.duration < NearestFull
                  /\ row.end_time = shift_end
        /\ (pc = "router" /\ store' # store) =>
              /\ store'[Len(store')].employee_id = ThisEmployee.EmployeeID
              /\ emp_idx' = emp_idx
        /\ (pc = "employee" /\ emp_idx' # emp_idx) =>
              emp_idx' = IF pc' = "day" THEN 0 ELSE emp_idx + 1 ]_vars

\* A shrunk visit is in the store.
C20_Witness ==
    \E i \in Rows :
        /\ hist[i].shrunk
        /\ hist[i].path = "nearest"
        /\ store[i].duration >= MinVisitMinutes
        /\ store[i].duration
             < get_default_service_duration(store[i].service_type)
        /\ store[i].duration < hist[i].remaining
        /\ store[i].end_time
             = Combine(hist[i].day,
                       _parse_shift(EmployeeOf(store[i].employee_id))[2])

\* After the last visit of an earlier employee of the day, with time left
\* in the shift and visits left to make, every patient that employee could
\* still visit would have left fewer than 15 minutes: that employee's day
\* was ended, and a later employee has placed a visit the same day.
C20_WitnessGoesOn ==
    /\ pc = "router"
    /\ emp_idx >= 2
    /\ visits_done >= 1
    /\ \E k \in 1..(emp_idx - 1) :
          LET e == employees[k]
              send == Combine(day_offset, _parse_shift(e)[2])
              mine == { i \in Rows : /\ hist[i].run = runs
                                     /\ hist[i].day = day_offset
                                     /\ store[i].employee_id = e.EmployeeID }
          IN  /\ mine # {}
              /\ Cardinality(mine) < MaxVisitsOf(e)
              /\ \E i \in mine :
                    LET left == { p \in 1..Len(patients) :
                                    /\ _employee_can_serve(e, patients[p])
                                    /\ PlacedMinutesUpTo(i, runs, day_offset,
                                           patients[p].PatientID)
                                         < derive_patient_daily_demand(
                                               patients[p]) }
                    IN  /\ \A j \in mine : j <= i
                        /\ store[i].end_time < send
                        /\ left # {}
                        /\ \A p \in left :
                              send - (store[i].end_time
                                + get_travel_time(travel_service,
                                      LocationOf(PatientOf(store[i].patient_id)),
                                      LocationOf(patients[p]),
                                      e.TransportMode)) < MinVisitMinutes

(***************************************************************************)
(* A weekly run that has been called keeps executing: the steps of         *)
(* generate_weekly_rota are those of one thread that nothing suspends.     *)
(***************************************************************************)
Running ==
    \/ StartDay
    \/ SkipEmployee
    \/ BeginEmployee
    \/ LoopExit
    \/ LoopBreak
    \/ LoopRetry
    \/ PlaceVisit
    \/ EndDay
    \/ WeekReturn

\* The uploads the weekly run is followed through to its return for.
LiveScenarios ==
    ({<<EmpSenior, EmpBrief>>} \X {<<PatEx>>} \X {FastService})
    \cup ({<<EmpCarer, EmpNoShift, EmpSenior, EmpLate>>} \X {<<PatUrdu>>}
          \X {FastService})

InitLive ==
    /\ \E sc \in LiveScenarios :
        /\ employees = sc[1]
        /\ patients = sc[2]
        /\ travel_service = sc[3]
    /\ current_location = NoLocation
    /\ AtRest

SpecLive == InitLive /\ [][Next]_vars /\ WF_vars(Running)

(***************************************************************************)
(* C21: the router loop of every employee and day terminates, whatever the *)
(* store holds: an iteration ends the employee's day, or places a visit    *)
(* (clock strictly forward, visit counter up by one), or moves the clock   *)
(* forward by 5 minutes; so the iterations are at most the shift length    *)
(* over 5 minutes plus the maximum visits per day, and a weekly run that   *)
(* was called returns.                                                     *)
(***************************************************************************)
\* Iterations the loop can still make: 5-minute steps left in the shift
\* plus visits left to make.
RouterMeasure ==
    (IF current_time < shift_end
     THEN (shift_end - current_time + RetryStepMinutes - 1)
              \div RetryStepMinutes
     ELSE 0)
    + (IF visits_done < MaxVisitsOf(ThisEmployee)
       THEN MaxVisitsOf(ThisEmployee) - visits_done ELSE 0)

InRun == pc \in {"day", "employee", "router"}

\* What one step does to the loop.
RouterSteps ==
       [][ /\ (pc = "employee" /\ pc' = "router") =>
                 RouterMeasure'
                   = (shift_end' - current_time' + RetryStepMinutes - 1)
                         \div RetryStepMinutes
                     + MaxVisitsOf(ThisEmployee)
           /\ (pc = "router" /\ pc' = "router") =>
                 /\ LoopCondition
                 /\ RouterMeasure' < RouterMeasure
                 /\ \/ /\ Len(store') = Len(store) + 1
                       /\ current_time' > current_time
                       /\ visits_done' = visits_done + 1
                    \/ /\ store' = store
                       /\ current_time' = current_time + RetryStepMinutes
                       /\ visits_done' = visits_done
           /\ (pc = "router" /\ pc' # "router") =>
                 /\ pc' = "employee"
                 /\ emp_idx' = emp_idx + 1
                 /\ store' = store ]_vars

C21_RouterTerminates == RouterSteps /\ (InRun ~> (pc = "idle"))

\* In a second run, on the rows of the first, the loop has only moved the
\* clock so far, at least twice.
C21_Witness ==
    /\ pc = "router"
    /\ runs = 2
    /\ store # <<>>
    /\ visits_done = 0
    /\ current_time >= Combine(day_offset, _parse_shift(ThisEmployee)[1])
                         + 2 * RetryStepMinutes

\* The second run has returned with rows of both runs in the store.
C21_WitnessReturned ==
    /\ pc = "idle"
    /\ runs = 2
    /\ \E i, j \in Rows : hist[i].run = 1 /\ hist[j].run = 2

(***************************************************************************)
(* C22: for each assignment, reanalysis takes as candidates the employees  *)
(* other than the current one whose shift covers the visit and who have no *)
(* overlapping commitment; it picks a candidate that already has an        *)
(* assignment on the same calendar day whenever there is one, and within   *)
(* the preferred group one with the smallest travel time from the          *)
(* employee's base to the patient.                                         *)
(***************************************************************************)
FreeInShift(aid) ==
    { k \in FreeOthers(aid) :
        _in_shift(employees[k], store[aid].start_time, store[aid].end_time) }

WorksThatDay(k, aid) ==
    \E j \in Rows :
        /\ store[j].employee_id = employees[k].EmployeeID
        /\ DateOf(store[j].start_time) = DateOf(store[aid].start_time)

PreferredGroup(aid) ==
    IF \E k \in FreeInShift(aid) : WorksThatDay(k, aid)
    THEN { k \in FreeInShift(aid) : WorksThatDay(k, aid) }
    ELSE FreeInShift(aid)

\* The assignment reanalysis is looking at has a patient and candidates.
HasCandidates ==
    /\ pc = "reanalyze"
    /\ pending # <<>>
    /\ Head(pending) \in Rows
    /\ PatientLoaded(store[Head(pending)].patient_id)
    /\ FreeInShift(Head(pending)) # {}

PicksBestOfPreferred ==
    \E k \in NearestOf(PreferredGroup(Head(pending)),
                       PatientOf(store[Head(pending)].patient_id)) :
        /\ store'[Head(pending)].employee_id = employees[k].EmployeeID
        /\ updated' = Append(updated, store'[Head(pending)])

C22_RankedChoice == [][ HasCandidates => PicksBestOfPreferred ]_vars

\* Two candidates that the sort cannot tell apart.
CandidatesTie(aid) ==
    \E k, l \in FreeInShift(aid) :
        /\ k # l
        /\ WorksThatDay(k, aid) = WorksThatDay(l, aid)
        /\ _calc_travel_minutes(employees[k],
                                PatientOf(store[aid].patient_id))
             = _calc_travel_minutes(employees[l],
                                    PatientOf(store[aid].patient_id))

\* What the program does: the ranked choice when no two candidates tie, and
\* no change at all when two do.
C22_RankedChoiceUnlessTie ==
    [][ HasCandidates =>
          IF CandidatesTie(Head(pending))
          THEN store' = store /\ pc' = "idle"
          ELSE PicksBestOfPreferred ]_vars

(***************************************************************************)
(* C23: within one weekly run no employee is given more visits on a day    *)
(* than the employee's maximum number of visits per day (8 when it is not  *)
(* set).                                                                   *)
(***************************************************************************)
VisitsGiven(run, day, k) ==
    Cardinality({ i \in Rows : /\ hist[i].run = run
                               /\ hist[i].day = day
                               /\ hist[i].employee_id
                                    = employees[k].EmployeeID })

C23_VisitsWithinCap ==
    \A run \in 1..runs : \A day \in 0..(DaysPerWeek - 1) :
        \A k \in 1..Len(employees) :
            VisitsGiven(run, day, k) <= MaxVisitsOf(employees[k])

\* The cap is what stops the employee: the shift has time left and a
\* patient the employee could still visit has demand left.
C23_Witness ==
    /\ pc = "router"
    /\ visits_done = MaxVisitsOf(ThisEmployee)
    /\ visits_done < DefaultMaxVisits
    /\ current_time < shift_end
    /\ VisitsGiven(runs, day_offset, emp_idx) = visits_done
    /\ ThisIteration.kind = "place"

(***************************************************************************)
(* C24: when the interval proposed for the chosen candidate overlaps an    *)
(* existing commitment of the employee, nothing is persisted, the demand   *)
(* pool, the employee's location and the visit counter stay as they are,   *)
(* the clock advances by exactly 5 minutes and the loop goes round again   *)
(* for the same employee on the same day.                                  *)
(***************************************************************************)
\* The visit the loop would persist next collides with a stored interval of
\* the employee: the nearest candidate's, or the second candidate's when
\* the nearest was served today.
ProposedOverlaps ==
    /\ pc = "router"
    /\ LoopCondition
    /\ ThisIteration.kind \in {"overlap", "overlap_second"}

C24_OverlapOnlyMovesClock ==
    [][ ProposedOverlaps =>
          /\ store' = store
          /\ patient_daily_minutes' = patient_daily_minutes
          /\ current_location' = current_location
          /\ visits_done' = visits_done
          /\ created_count' = created_count
          /\ current_time' = current_time + RetryStepMinutes
          /\ pc' = "router"
          /\ emp_idx' = emp_idx
          /\ day_offset' = day_offset
          /\ shift_end' = shift_end ]_vars

\* A second collision in a row: the clock stands 5 minutes after the shift
\* start and the rebuilt selection collides again.
C24_Witness ==
    /\ pc = "router"
    /\ LoopCondition
    /\ ThisIteration.kind = "overlap"
    /\ visits_done = 0
    /\ current_time
         = Combine(day_offset, _parse_shift(ThisEmployee)[1])
             + RetryStepMinutes

\* The second candidate's visit collides.
C24_WitnessSecond ==
    /\ pc = "router"
    /\ LoopCondition
    /\ ThisIteration.kind = "overlap_second"

(***************************************************************************)
(* C25: reanalysis never moves an assignment to an employee who already    *)
(* has another assignment with the same patient on the same calendar day.  *)
(***************************************************************************)
\* Row aid changes hands in this step.
Moved(aid) ==
    /\ aid \in Rows
    /\ Len(store') = Len(store)
    /\ store'[aid].employee_id # store[aid].employee_id

\* After the step the new employee of row aid holds a second row with the
\* same patient on the same day.
SeesPatientTwice(aid) ==
    \E j \in Rows \ {aid} :
        /\ store'[j].employee_id = store'[aid].employee_id
        /\ store'[j].patient_id = store'[aid].patient_id
        /\ DateOf(store'[j].start_time) = DateOf(store'[aid].start_time)

C25_NoSecondVisitByMove ==
    [][ \A aid \in Rows : Moved(aid) => ~SeesPatientTwice(aid) ]_vars

\* What the program keeps: a move within the shift or by the fallback goes
\* to an employee with no overlapping row, whatever patients that employee
\* sees that day.
C25_MoveAvoidsOverlapOnly ==
    [][ \A aid \in Rows : Moved(aid) =>
          \A j \in Rows \ {aid} :
              store'[j].employee_id = store'[aid].employee_id
                  => ~RowsOverlap(store'[j], store'[aid]) ]_vars

(***************************************************************************)
(* C26: reanalysis completes without raising an error for every store and  *)
(* id list: every id is processed in turn, also when two candidates tie on *)
(* the same-day flag and the travel time or, in the fallback, on the       *)
(* travel time, and the call returns the updated records.                  *)
(***************************************************************************)
C26_ReanalysisCompletes ==
    [][ pc = "reanalyze" =>
          \/ pc' = "reanalyze" /\ pending' = Tail(pending)
          \/ pending = <<>> /\ pc' = "idle" /\ result' = updated ]_vars

\* Two free employees the fallback's sort cannot tell apart.
FallbackTie(aid) ==
    \E k, l \in FreeOthers(aid) :
        /\ k # l
        /\ _calc_travel_minutes(employees[k],
                                PatientOf(store[aid].patient_id))
             = _calc_travel_minutes(employees[l],
                                    PatientOf(store[aid].patient_id))

\* What the program does: the call is cut short exactly when the id in hand
\* has tied candidates in the shift, or no candidate in the shift and tied
\* free employees; the ids after it are not processed.
C26_RaisesExactlyOnTie ==
    [][ (pc = "reanalyze" /\ pending # <<>>) =>
          IF /\ ~Unreferenced(Head(pending))
             /\ \/ CandidatesTie(Head(pending))
                \/ /\ FreeInShift(Head(pending)) = {}
                   /\ FallbackTie(Head(pending))
          THEN pc' = "idle" /\ store' = store
          ELSE pc' = "reanalyze" /\ pending' = Tail(pending) ]_vars

(***************************************************************************)
(* C27: whenever reanalysis moves an assignment, the new employee's travel *)
(* time from base to the patient is no greater than that of the employee   *)
(* it is taken from; and an assignment whose current employee is already   *)
(* the nearest to the patient is not moved.                                *)
(***************************************************************************)
BaseTravel(employee_id, patient_id) ==
    _calc_travel_minutes(EmployeeOf(employee_id), PatientOf(patient_id))

C27_MovesOnlyNearer ==
    [][ \A aid \in Rows : Moved(aid) =>
          BaseTravel(store'[aid].employee_id, store[aid].patient_id)
              <= BaseTravel(store[aid].employee_id, store[aid].patient_id)
      ]_vars

\* What the program does: the moved assignment goes to the nearest of the
\* employees it could go to, the current employee's own travel time never
\* being looked at, and it records that employee's travel time.
C27_MovesToNearestOfOthers ==
    [][ \A aid \in Rows : Moved(aid) =>
          /\ \A k \in (IF FreeInShift(aid) # {}
                       THEN PreferredGroup(aid) ELSE FreeOthers(aid)) :
                BaseTravel(store'[aid].employee_id, store[aid].patient_id)
                  <= _calc_travel_minutes(employees[k],
                                          PatientOf(store[aid].patient_id))
          /\ store'[aid].travel_time
               = BaseTravel(store'[aid].employee_id, store[aid].patient_id)
      ]_vars

(***************************************************************************)
(* C28: every assignment created by a weekly run lasts at least 15         *)
(* minutes, the minimum viable visit length, shrunk to fit the shift or    *)
(* not.                                                                    *)
(***************************************************************************)
C28_NoVisitUnderMinimum ==
    \A i \in Rows : Scheduled(i) => store[i].duration >= MinVisitMinutes

\* What the program keeps: a visit is as long as the service's default
\* duration, or as the demand the patient had left when that was less, or
\* as the shift allowed, and only in the last case at least 15 minutes.
C28_DurationAsDecided ==
    \A i \in Rows : Scheduled(i) =>
        IF hist[i].shrunk
        THEN store[i].duration >= MinVisitMinutes
        ELSE store[i].duration
               = Min(get_default_service_duration(store[i].service_type),
                     hist[i].remaining)

(***************************************************************************)
(* C29: a second weekly run for the same start date, on the store the      *)
(* first run filled, does not raise the minutes placed for any patient on  *)
(* any day above the patient's estimated demand of the day.                *)
(***************************************************************************)
RECURSIVE StoredMinutesUpTo(_, _, _)
StoredMinutesUpTo(n, day, patient_id) ==
    IF n = 0 THEN 0
    ELSE StoredMinutesUpTo(n - 1, day, patient_id)
         + (IF /\ DateOf(store[n].start_time) = day
               /\ store[n].patient_id = patient_id
            THEN store[n].duration ELSE 0)

\* Minutes the store holds for a patient on a day, whichever run placed them.
StoredMinutes(day, patient_id) ==
    StoredMinutesUpTo(Len(store), day, patient_id)

C29_SecondRunWithinDemand ==
    (runs = 2 /\ reanalyses = 0) =>
        \A k \in 1..Len(patients) : \A day \in 0..(DaysPerWeek - 1) :
            StoredMinutes(day, patients[k].PatientID)
                <= derive_patient_daily_demand(patients[k])

\* What the program keeps: each run on its own stays within the demand of
\* the day, the second run starting from the full demand again.
C29_EachRunWithinDemand ==
    \A run \in 1..runs :
        \A k \in 1..Len(patients) : \A day \in 0..(DaysPerWeek - 1) :
            PlacedMinutes(run, day, patients[k].PatientID)
                <= derive_patient_daily_demand(patients[k])

(***************************************************************************)
(* C30: in a weekly run on an empty store, of two consecutive visits of    *)
(* one employee on one day the later one starts no earlier than the end of *)
(* the earlier one plus the later one's recorded travel minutes, and the   *)
(* first visit of the day starts no earlier than the shift start plus its  *)
(* recorded travel minutes.                                                *)
(***************************************************************************)
\* Rows i and j were placed for the same employee in the same pass over a
\* day.
SameTour(i, j) ==
    /\ hist[i].run = hist[j].run
    /\ hist[i].day = hist[j].day
    /\ hist[i].employee_id = hist[j].employee_id

\* Row i is the employee's first visit of the day, row j the visit after
\* row i (the store keeps the rows in the order they were placed).
FirstOfTour(i) == \A h \in 1..(i - 1) : ~SameTour(h, i)

NextOfTour(i, j) ==
    /\ i < j
    /\ SameTour(i, j)
    /\ \A h \in (i + 1)..(j - 1) : ~SameTour(i, h)

C30_TravelBetweenVisits ==
    (FirstRunFromEmptyStore /\ \A i \in Rows : Scheduled(i)) =>
        /\ \A i \in Rows : FirstOfTour(i) =>
              store[i].start_time
                >= Combine(hist[i].day,
                           _parse_shift(EmployeeOf(hist[i].employee_id))[1])
                     + store[i].travel_time
        /\ \A i, j \in Rows : NextOfTour(i, j) =>
              store[j].start_time >= store[i].end_time + store[j].travel_time

\* A tour of three visits with travel between them.
C30_Witness ==
    /\ FirstRunFromEmptyStore
    /\ \A i \in Rows : Scheduled(i)
    /\ \E i, j, k \in Rows :
        /\ FirstOfTour(i) /\ NextOfTour(i, j) /\ NextOfTour(j, k)
        /\ store[j].travel_time > 0 /\ store[k].travel_time > 0

==========================================================================
